---- MODULE Spec2Model ----
(***************************************************************************)
(* Data reconciliation and edge scoring of d1-picks: team-name             *)
(* normalisation, schedule/prediction merging, odds matching, the          *)
(* moneyline conversions, edge scoring and classification, the picks page  *)
(* and the run-score predictor, modelled from the TypeScript sources.      *)
(*                                                                         *)
(* Strings are sequences of one-character strings.  Probabilities of the   *)
(* prediction feed are integers in thousandths; probabilities computed     *)
(* from a moneyline are exact fractions <<numerator, denominator>>.        *)
(***************************************************************************)
EXTENDS Integers, Sequences, FiniteSets, TLC

VARIABLES
    teamMappings,      \* the alias table (Object.entries order): seq of [canonical, aliases]
    nameIn, nameOut,   \* normalizeTeamName: argument and result of the last call
    normCalled,        \* TRUE once normalizeTeamName has been called
    espnGames,         \* fetchESPNGames(date): the schedule records
    allGames,          \* convertESPNGames(espnGames)
    warrenNolanGames,  \* scrapeWarrenNolan(date): the prediction records
    gamesWithPredictions, \* mergeWarrenNolanPredictions(allGames, warrenNolanGames)
    oddsEntries,       \* fetchOdds(): the moneyline entries
    matchedGames,      \* matchGamesWithOdds(gamesWithPredictions, oddsEntries)
    gamesWithEdges,    \* the games with their BetEdges (step 6 of DailyPicksPage)
    step,              \* how far DailyPicksPage has got
    mlIn,              \* a moneyline handed to the edge calculator
    mlProb,            \* moneylineToProb(mlIn), a fraction <<n, d>>
    mlBack,            \* probToMoneyline(mlProb)
    edgeIn,            \* the other arguments of calculateEdge: modelProb, isHome, isNeutral
    edgeCalc,          \* calculateEdge(modelProb, mlIn, isHome, isNeutral)
    aiScore,           \* calculateAIScore(edgeCalc.adjustedEdge), in tenths
    pickLabel,         \* getPickLabel(aiScore)
    mlStep,            \* which of the conversions has run
    picks,             \* step 7 of DailyPicksPage: the games with a pick, sorted
    otherPredictedGames, \* the predicted games without a pick, sorted
    oddsOnlyGames,     \* the games without a prediction
    cards,             \* what the page renders for the games of each list
    coefficientsData,  \* model-predictor.ts: the coefficient store (module variable)
    pendingLoads,      \* the loadCoefficients calls suspended at their await
    lastLoad,          \* how the last finished loadCoefficients ended: "parsed" | "caught"
    call,              \* the last prediction call: its arguments, the store it saw, its outcome
    heap,              \* the objects of one mergeWarrenNolanPredictions call, by address
    heapAtCall,        \* the heap as it was when the call started
    frame,             \* the call's locals: its arrays (addresses), loop index and position
    events             \* the events of the ESPN scoreboard response

normVars == <<nameIn, nameOut, normCalled>>

mergeVars == <<espnGames, allGames, warrenNolanGames, gamesWithPredictions, step>>

matchVars == <<oddsEntries, matchedGames, gamesWithEdges>>

oddsVars == <<mlIn, mlProb, mlBack, edgeIn, edgeCalc, aiScore, pickLabel, mlStep>>

pageVars == <<picks, otherPredictedGames, oddsOnlyGames, cards>>

predVars == <<coefficientsData, pendingLoads, lastLoad, call>>

frameVars == <<heap, heapAtCall, frame>>

fetchVars == <<events>>

vars == <<teamMappings, normVars, mergeVars, matchVars, oddsVars, pageVars, predVars, frameVars, fetchVars>>

(***************************************************************************)
(* Bounds                                                                  *)
(***************************************************************************)
MaxLen == 3        \* longest team name handed to normalizeTeamName
MaxAliases == 2    \* longest alias list of one alias-table entry
MaxGames == 2      \* most schedule records of one day
MaxRecords == 2    \* most prediction records of one day
MaxOdds == 2       \* most odds entries of one fetch
MaxMoneyline == 250 \* largest absolute moneyline converted
MaxLoads == 2      \* most loadCoefficients calls in flight at once

(***************************************************************************)
(* Strings                                                                 *)
(***************************************************************************)
NameChars == {"a", "B", " ", "_"}

SeqsUpTo(S, n) == UNION {[1..k -> S] : k \in 0..n}

Names == SeqsUpTo(NameChars, MaxLen)

Min(S) == CHOOSE x \in S : \A y \in S : x <= y

Max(S) == CHOOSE x \in S : \A y \in S : x >= y

\* the capital letters of the modelled strings and their small letters
UpperToLower ==
    [A |-> "a", B |-> "b", C |-> "c", D |-> "d", E |-> "e", F |-> "f", G |-> "g",
     H |-> "h", I |-> "i", J |-> "j", K |-> "k", L |-> "l", M |-> "m", N |-> "n",
     O |-> "o", P |-> "p", Q |-> "q", R |-> "r", S |-> "s", T |-> "t", U |-> "u",
     V |-> "v", W |-> "w", X |-> "x", Y |-> "y", Z |-> "z"]

LowerChar(c) ==
    IF c = "A" THEN "a" ELSE IF c = "B" THEN "b"
    ELSE IF c \in {" ", "_", "a", "b"} THEN c
    ELSE IF c \in DOMAIN UpperToLower THEN UpperToLower[c] ELSE c

toLowerCase(s) == [i \in 1..Len(s) |-> LowerChar(s[i])]

IsSpace(c) == c = " "

RECURSIVE trimStart(_)
trimStart(s) ==
    IF s = <<>> THEN s
    ELSE IF IsSpace(Head(s)) THEN trimStart(Tail(s)) ELSE s

RECURSIVE trimEnd(_)
trimEnd(s) ==
    IF s = <<>> THEN s
    ELSE IF IsSpace(s[Len(s)]) THEN trimEnd(SubSeq(s, 1, Len(s) - 1)) ELSE s

trim(s) == trimEnd(trimStart(s))

\* s.replace(/\s+/g, '_'): every maximal whitespace run becomes one underscore
RECURSIVE replaceWhitespaceRuns(_)
replaceWhitespaceRuns(s) ==
    IF s = <<>> THEN <<>>
    ELSE IF IsSpace(Head(s)) THEN <<"_">> \o replaceWhitespaceRuns(trimStart(Tail(s)))
    ELSE <<Head(s)>> \o replaceWhitespaceRuns(Tail(s))

includes(list, x) == \E i \in 1..Len(list) : list[i] = x

(***************************************************************************)
(* Identity resolver: normalizeTeamName                                    *)
(***************************************************************************)
normalizeTeamName_lastMatch(name) ==
    LET normalized == trim(toLowerCase(name))
        hits == {i \in 1..Len(teamMappings) : includes(teamMappings[i].aliases, normalized)}
    IN  IF hits # {} THEN teamMappings[Max(hits)].canonical
        ELSE replaceWhitespaceRuns(normalized)

normalizeTeamName(name) ==
    LET normalized == trim(toLowerCase(name))
        hits == {i \in 1..Len(teamMappings) : includes(teamMappings[i].aliases, normalized)}
    IN  IF hits # {} THEN teamMappings[Min(hits)].canonical
        ELSE replaceWhitespaceRuns(normalized)

(***************************************************************************)
(* Alias tables (src/data/team-mappings.json is a data file, edited by     *)
(* hand: "new_team": ["new team", "team nickname", "alias"]).  A table is  *)
(* the sequence of its entries in key order; keys are distinct.            *)
(***************************************************************************)
CanonPool == {<<"a">>, <<"a", "_", "b">>}

AliasPool == {<<"a">>, <<"b">>, <<"a", " ", "b">>, <<"a", "_", "b">>}

AliasRank(a) ==
    IF a = <<"a">> THEN 1 ELSE IF a = <<"b">> THEN 2
    ELSE IF a = <<"a", " ", "b">> THEN 3 ELSE 4

RECURSIVE SetToList(_)
SetToList(S) ==
    IF S = {} THEN <<>>
    ELSE LET x == CHOOSE y \in S : \A z \in S : AliasRank(y) <= AliasRank(z)
         IN  <<x>> \o SetToList(S \ {x})

AliasLists == {SetToList(S) : S \in {T \in SUBSET AliasPool : Cardinality(T) <= MaxAliases}}

TableEntries == [canonical : CanonPool, aliases : AliasLists]

TeamMappingTables ==
    {<<>>} \cup {<<e>> : e \in TableEntries}
           \cup {t \in [1..2 -> TableEntries] : t[1].canonical # t[2].canonical}

(***************************************************************************)
(* SpecNorm: one call of normalizeTeamName on any name, under any table    *)
(***************************************************************************)
NormIdle == nameIn = <<>> /\ nameOut = <<>> /\ normCalled = FALSE

MergeIdle ==
    /\ espnGames = <<>>
    /\ allGames = <<>>
    /\ warrenNolanGames = <<>>
    /\ gamesWithPredictions = <<>>
    /\ step = "idle"

MatchIdle == oddsEntries = <<>> /\ matchedGames = <<>> /\ gamesWithEdges = <<>>

OddsIdle ==
    /\ mlIn = 0
    /\ mlProb = <<0, 1>>
    /\ mlBack = 0
    /\ edgeIn = <<>>
    /\ edgeCalc = <<>>
    /\ aiScore = 0
    /\ pickLabel = "none"
    /\ mlStep = "idle"

PageIdle ==
    /\ picks = <<>>
    /\ otherPredictedGames = <<>>
    /\ oddsOnlyGames = <<>>
    /\ cards = <<>>

PredictIdle ==
    /\ coefficientsData = [loaded |-> FALSE]
    /\ pendingLoads = 0
    /\ lastLoad = "none"
    /\ call = [fn |-> "none"]

FrameIdle == heap = <<>> /\ heapAtCall = <<>> /\ frame = [pc |-> "none"]

FetchIdle == events = <<>>

InitNorm ==
    /\ teamMappings \in TeamMappingTables
    /\ NormIdle
    /\ MergeIdle
    /\ MatchIdle
    /\ OddsIdle
    /\ PageIdle
    /\ PredictIdle
    /\ FrameIdle
    /\ FetchIdle

Normalize ==
    /\ normCalled = FALSE
    /\ \E name \in Names :
        /\ nameIn' = name
        /\ nameOut' = normalizeTeamName(name)
    /\ normCalled' = TRUE
    /\ UNCHANGED <<teamMappings, mergeVars, matchVars, oddsVars>>
    /\ UNCHANGED <<pageVars, predVars, frameVars, fetchVars>>

NextNorm == Normalize

SpecNorm == InitNorm /\ [][NextNorm]_vars

(***************************************************************************)
(* Source merger: convertESPNGames and mergeWarrenNolanPredictions         *)
(***************************************************************************)
\* two alias tables of the family: one with distinct teams, one in which
\* two names share a slug
PipelineTables ==
    { << [canonical |-> <<"a", "_", "b">>, aliases |-> << <<"a", " ", "b">> >>],
         [canonical |-> <<"a">>, aliases |-> << <<"a">> >>] >>,
      << [canonical |-> <<"a">>, aliases |-> << <<"a">>, <<"b">> >>] >> }

\* team names as the schedule feed spells them: (home, away)
ESPNPairs ==
    { << <<"B">>, <<"a">> >>, << <<"a">>, <<"B">> >>, << <<"B">>, <<"a", " ", "B">> >> }

ESPNStatuses == {"scheduled", "final"}

\* the rows of the schedule feed: each pairing as a scheduled home game, and
\* one pairing also at a neutral site and as a finished game
ESPNChoices ==
    {c \in [pair : ESPNPairs, neutralSite : BOOLEAN, status : ESPNStatuses] :
        (c.neutralSite \/ c.status # "scheduled") => c.pair = << <<"B">>, <<"a">> >>}

\* parseStartTime(event.date) of the i-th record of a day
startTimeAt(i) == IF i % 2 = 1 THEN "6:30 PM" ELSE "1:00 PM"

\* ESPN event ids are distinct: the i-th record of a day has id i
ESPNListsOver(choices) ==
    UNION {{[i \in 1..k |-> [id |-> i,
                            startTime |-> startTimeAt(i),
                            homeTeam |-> c[i].pair[1],
                            awayTeam |-> c[i].pair[2],
                            neutralSite |-> c[i].neutralSite,
                            status |-> c[i].status]] : c \in [1..k -> choices]}
           : k \in 0..MaxGames}

ESPNGameLists == ESPNListsOver(ESPNChoices)

convertOne(espnGame) ==
    LET homeTeamNormalized == normalizeTeamName(espnGame.homeTeam)
        awayTeamNormalized == normalizeTeamName(espnGame.awayTeam)
    IN  [id |-> <<"espn", espnGame.id>>,
         startTime |-> espnGame.startTime,
         teamA |-> awayTeamNormalized,
         teamB |-> homeTeamNormalized,
         teamAHome |-> FALSE,
         teamBHome |-> ~espnGame.neutralSite,
         venueType |-> IF espnGame.neutralSite THEN "neutral" ELSE "home_b",
         modelProbA |-> 500,
         modelProbB |-> 500,
         hasPrediction |-> FALSE,
         predictionSource |-> "none"]

\* mutant: every record is converted, whatever its status
convertESPNGames_keepAll(games) == [i \in 1..Len(games) |-> convertOne(games[i])]

convertESPNGames(games) ==
    LET scheduled == SelectSeq(games, LAMBDA g : g.status = "scheduled")
    IN  [i \in 1..Len(scheduled) |-> convertOne(scheduled[i])]

\* team names as the prediction feed spells them, cleaned: (teamA, teamB)
WNPairs ==
    { << <<"a">>, <<"B">> >>, << <<"B">>, <<"a">> >>,
      << <<"B">>, <<"a", " ", "B">> >>, << <<"a", " ", "B">>, <<"B">> >> }

\* the probability column, in thousandths (0.60, 0.70)
WNProbs == {600, 700}

\* the Game scrapeWarrenNolan builds from one "A @ B" row
wnGame(teamA, teamB, prob) ==
    [id |-> <<"wn", toLowerCase(teamA), toLowerCase(teamB)>>,
     startTime |-> "TBD",
     teamA |-> toLowerCase(teamA),
     teamB |-> toLowerCase(teamB),
     teamAHome |-> FALSE,
     teamBHome |-> TRUE,
     venueType |-> "home_b",
     modelProbA |-> 1000 - prob,
     modelProbB |-> prob]

WNGames == {wnGame(p[1], p[2], q) : p \in WNPairs, q \in WNProbs}

WNGameLists == SeqsUpTo(WNGames, MaxRecords)

\* mutant: the names stored on the listed game are compared as they are
teamsMatch_storedNames(espnGame, wn) ==
    LET wnTeamA == normalizeTeamName(wn.teamA)
        wnTeamB == normalizeTeamName(wn.teamB)
    IN  \/ (espnGame.teamA = wnTeamA /\ espnGame.teamB = wnTeamB)
        \/ (espnGame.teamA = wnTeamB /\ espnGame.teamB = wnTeamA)

teamsMatch(espnGame, wn) ==
    LET espnTeamA == normalizeTeamName(espnGame.teamA)
        espnTeamB == normalizeTeamName(espnGame.teamB)
        wnTeamA == normalizeTeamName(wn.teamA)
        wnTeamB == normalizeTeamName(wn.teamB)
    IN  \/ (espnTeamA = wnTeamA /\ espnTeamB = wnTeamB)
        \/ (espnTeamA = wnTeamB /\ espnTeamB = wnTeamA)

\* mutant: the last matching game is taken
findIndex_lastMatch(mergedGames, wn) ==
    LET hits == {i \in 1..Len(mergedGames) : teamsMatch(mergedGames[i], wn)}
    IN  IF hits = {} THEN 0 ELSE Max(hits)

\* Array.prototype.findIndex, 1-based; 0 stands for JavaScript's -1
findIndex(mergedGames, wn) ==
    LET hits == {i \in 1..Len(mergedGames) : teamsMatch(mergedGames[i], wn)}
    IN  IF hits = {} THEN 0 ELSE Min(hits)

standalone(wn) ==
    [id |-> wn.id, startTime |-> wn.startTime, teamA |-> wn.teamA, teamB |-> wn.teamB,
     teamAHome |-> wn.teamAHome, teamBHome |-> wn.teamBHome,
     venueType |-> wn.venueType,
     modelProbA |-> wn.modelProbA, modelProbB |-> wn.modelProbB,
     hasPrediction |-> TRUE, predictionSource |-> "warren_nolan"]

\* mutant: a matched schedule game is overwritten by the prediction's game
mergeOne_replaceByPrediction(mergedGames, wn) ==
    LET matchIndex == findIndex(mergedGames, wn)
    IN  IF matchIndex # 0
        THEN [mergedGames EXCEPT ![matchIndex] = standalone(wn)]
        ELSE Append(mergedGames, standalone(wn))

\* mutant: probabilities are copied by position, never swapped
mergeOne_neverSwap(mergedGames, wn) ==
    LET matchIndex == findIndex(mergedGames, wn)
    IN  IF matchIndex # 0
        THEN [mergedGames EXCEPT ![matchIndex] =
                 [mergedGames[matchIndex] EXCEPT !.modelProbA = wn.modelProbA,
                                                 !.modelProbB = wn.modelProbB,
                                                 !.hasPrediction = TRUE,
                                                 !.predictionSource = "warren_nolan"]]
        ELSE Append(mergedGames, standalone(wn))

\* one iteration of the loop over warrenNolanGames
mergeOne(mergedGames, wn) ==
    LET matchIndex == findIndex(mergedGames, wn)
    IN  IF matchIndex # 0
        THEN LET espnGame == mergedGames[matchIndex]
                 sameOrder == normalizeTeamName(espnGame.teamA) = normalizeTeamName(wn.teamA)
             IN  IF sameOrder
                 THEN [mergedGames EXCEPT ![matchIndex] =
                          [espnGame EXCEPT !.modelProbA = wn.modelProbA,
                                           !.modelProbB = wn.modelProbB,
                                           !.hasPrediction = TRUE,
                                           !.predictionSource = "warren_nolan"]]
                 ELSE [mergedGames EXCEPT ![matchIndex] =
                          [espnGame EXCEPT !.modelProbA = wn.modelProbB,
                                           !.modelProbB = wn.modelProbA,
                                           !.hasPrediction = TRUE,
                                           !.predictionSource = "warren_nolan"]]
        ELSE Append(mergedGames, standalone(wn))

\* the for-loop over warrenNolanGames; mergedGames is the array the loop mutates,
\* bound to its value after each iteration
RECURSIVE mergeLoop(_, _)
mergeLoop(mergedGames, wns) ==
    IF wns = <<>> THEN mergedGames
    ELSE CHOOSE out \in {mergeLoop(next, Tail(wns)) :
                            next \in {mergeOne(mergedGames, Head(wns))}} : TRUE

mergeWarrenNolanPredictions(games, wns) == mergeLoop(games, wns)

(***************************************************************************)
(* SpecMerge: steps 1 to 3 of DailyPicksPage                               *)
(***************************************************************************)
InitMerge ==
    /\ teamMappings \in PipelineTables
    /\ NormIdle
    /\ espnGames \in ESPNGameLists
    /\ allGames = <<>>
    /\ warrenNolanGames = <<>>
    /\ gamesWithPredictions = <<>>
    /\ step = "fetched"
    /\ MatchIdle
    /\ OddsIdle
    /\ PageIdle
    /\ PredictIdle
    /\ FrameIdle
    /\ FetchIdle

Convert ==
    /\ step = "fetched"
    /\ allGames' = convertESPNGames(espnGames)
    /\ step' = "converted"
    /\ UNCHANGED <<teamMappings, normVars, espnGames, warrenNolanGames, gamesWithPredictions>>
    /\ UNCHANGED <<matchVars, oddsVars>>
    /\ UNCHANGED <<pageVars, predVars, frameVars, fetchVars>>

Merge ==
    /\ step = "converted"
    /\ \E wns \in WNGameLists :
        /\ warrenNolanGames' = wns
        /\ gamesWithPredictions' = mergeWarrenNolanPredictions(allGames, wns)
    /\ step' = "merged"
    /\ UNCHANGED <<teamMappings, normVars, espnGames, allGames, matchVars, oddsVars>>
    /\ UNCHANGED <<pageVars, predVars, frameVars, fetchVars>>

NextMerge == Convert \/ Merge

SpecMerge == InitMerge /\ [][NextMerge]_vars

(***************************************************************************)
(* Market matcher: matchGamesWithOdds                                      *)
(***************************************************************************)
\* team names as the odds feed spells them: (home_team, away_team)
OddsPairs ==
    { << <<"B">>, <<"a">> >>, << <<"a">>, <<"B">> >>,
      << <<"B">>, <<"a", " ", "B">> >>, << <<"a">>, <<"a">> >> }

OddsGameIds == {"ev1", "ev2"}

\* one h2h outcome of the odds feed, here the home team's price
MatchOddsEntries ==
    {[gameId |-> g, homeTeam |-> p[1], awayTeam |-> p[2],
      sportsbook |-> "draftkings", team |-> p[1], moneyline |-> -150]
        : g \in OddsGameIds, p \in OddsPairs}

MatchOddsLists == SeqsUpTo(MatchOddsEntries, MaxOdds)

entryMatches(game, entry) ==
    LET normalizedHome == normalizeTeamName(entry.homeTeam)
        normalizedAway == normalizeTeamName(entry.awayTeam)
    IN  /\ (normalizedHome = game.teamA \/ normalizedHome = game.teamB)
        /\ (normalizedAway = game.teamA \/ normalizedAway = game.teamB)

gameOddsOf(game, entries) == SelectSeq(entries, LAMBDA entry : entryMatches(game, entry))

\* mutant: the earlier matcher, which kept only games that have odds
matchGamesWithOdds_dropEmpty(games, entries) ==
    LET kept == SelectSeq(games, LAMBDA g : gameOddsOf(g, entries) # <<>>)
    IN  [i \in 1..Len(kept) |-> [game |-> kept[i], odds |-> gameOddsOf(kept[i], entries)]]

matchGamesWithOdds(games, entries) ==
    [i \in 1..Len(games) |-> [game |-> games[i], odds |-> gameOddsOf(games[i], entries)]]

(***************************************************************************)
(* SpecMatch: step 5 of DailyPicksPage, from the merged games of a day     *)
(***************************************************************************)
\* the schedule rows and prediction records of the days matched here
MatchESPNLists ==
    ESPNListsOver({c \in ESPNChoices : c.status = "scheduled" /\ ~c.neutralSite})

MatchWNLists == SeqsUpTo({wnGame(<<"B">>, <<"a", " ", "B">>, 600)}, MaxRecords)

InitMatch ==
    /\ teamMappings \in PipelineTables
    /\ NormIdle
    /\ espnGames \in MatchESPNLists
    /\ warrenNolanGames \in MatchWNLists
    /\ allGames = convertESPNGames(espnGames)
    /\ gamesWithPredictions = mergeWarrenNolanPredictions(allGames, warrenNolanGames)
    /\ step = "merged"
    /\ MatchIdle
    /\ OddsIdle
    /\ PageIdle
    /\ PredictIdle
    /\ FrameIdle
    /\ FetchIdle

Match ==
    /\ step = "merged"
    /\ \E entries \in MatchOddsLists :
        /\ oddsEntries' = entries
        /\ matchedGames' = matchGamesWithOdds(gamesWithPredictions, entries)
    /\ step' = "matched"
    /\ UNCHANGED <<teamMappings, normVars, espnGames, allGames, warrenNolanGames,
                   gamesWithPredictions, gamesWithEdges, oddsVars>>
    /\ UNCHANGED <<pageVars, predVars, frameVars, fetchVars>>

NextMatch == Match

SpecMatch == InitMatch /\ [][NextMatch]_vars

(***************************************************************************)
(* Edge calculator: moneylineToProb, calculateEdge; probToMoneyline        *)
(*                                                                         *)
(* Numbers are exact fractions <<n, d>> with d > 0; the doubles of the     *)
(* source differ from them by rounding errors far below the steps that     *)
(* the comparisons and Math.round of these functions can see.              *)
(***************************************************************************)
Abs(x) == IF x < 0 THEN -x ELSE x

RECURSIVE GCD(_, _)
GCD(a, b) == IF b = 0 THEN a ELSE GCD(b, a % b)

LCM(a, b) == (a \div GCD(a, b)) * b

\* a fraction in lowest terms
Reduce(x) ==
    LET g == GCD(Abs(x[1]), x[2])
    IN  IF x[1] = 0 THEN <<0, 1>> ELSE <<x[1] \div g, x[2] \div g>>

\* sums and differences over the least common denominator, in lowest terms
FracAdd(x, y) ==
    LET a == Reduce(x)
        b == Reduce(y)
        l == LCM(a[2], b[2])
    IN  Reduce(<<a[1] * (l \div a[2]) + b[1] * (l \div b[2]), l>>)

FracSub(x, y) == FracAdd(x, <<-y[1], y[2]>>)

FracLess(x, y) == x[1] * y[2] < y[1] * x[2]

FracEq(x, y) == x[1] * y[2] = y[1] * x[2]

\* Math.round of n/d, d > 0: the nearest integer, halves towards +infinity
MathRound(n, d) == IF 2 * (n % d) >= d THEN (n \div d) + 1 ELSE n \div d

\* mutant: the same formula for favourites and underdogs
moneylineToProb_oneFormula(moneyline) == <<100, Abs(moneyline) + 100>>

moneylineToProb(moneyline) ==
    IF moneyline > 0
    THEN <<100, moneyline + 100>>
    ELSE <<Abs(moneyline), Abs(moneyline) + 100>>

\* mutant: the favourite's moneyline loses its minus sign
probToMoneyline_unsigned(prob) ==
    IF 2 * prob[1] >= prob[2]
    THEN MathRound(100 * prob[1], prob[2] - prob[1])
    ELSE MathRound(100 * (prob[2] - prob[1]), prob[1])

\* prob = n/d with 0 < n < d, as moneylineToProb returns it for a nonzero
\* moneyline: (-100 * prob) / (1 - prob) = -100n / (d - n)
probToMoneyline(prob) ==
    IF 2 * prob[1] >= prob[2]
    THEN MathRound(-100 * prob[1], prob[2] - prob[1])
    ELSE MathRound(100 * (prob[2] - prob[1]), prob[1])

\* mutant: at a home game on a neutral site both modifiers are added
calculateEdge_bothModifiers(modelProb, moneyline, isHome, isNeutral) ==
    LET impliedProb == moneylineToProb(moneyline)
        rawEdge == FracSub(<<modelProb, 1000>>, impliedProb)
        modifier == FracAdd(IF isHome THEN <<5, 1000>> ELSE <<0, 1>>,
                            IF isNeutral THEN <<25, 10000>> ELSE <<0, 1>>)
    IN  [impliedProb |-> impliedProb,
         rawEdge |-> rawEdge,
         adjustedEdge |-> FracAdd(rawEdge, modifier),
         modifierReason |-> IF isHome THEN "home: +0.5%"
                            ELSE IF isNeutral THEN "neutral: +0.25%" ELSE "null"]

\* modelProb in thousandths
calculateEdge(modelProb, moneyline, isHome, isNeutral) ==
    LET impliedProb == moneylineToProb(moneyline)
        rawEdge == FracSub(<<modelProb, 1000>>, impliedProb)
        modifier == IF isHome THEN <<5, 1000>>
                    ELSE IF isNeutral THEN <<25, 10000>> ELSE <<0, 1>>
        modifierReason == IF isHome THEN "home: +0.5%"
                          ELSE IF isNeutral THEN "neutral: +0.25%" ELSE "null"
    IN  [impliedProb |-> impliedProb,
         rawEdge |-> rawEdge,
         adjustedEdge |-> FracAdd(rawEdge, modifier),
         modifierReason |-> modifierReason]

\* the AI score in tenths: Math.round(score * 10) / 10, clamped to [1, 10]
\* mutant: the score is not clamped
calculateAIScore_unclamped(adjustedEdge) ==
    MathRound(50 * adjustedEdge[2] + 500 * adjustedEdge[1], adjustedEdge[2])

calculateAIScore(adjustedEdge) ==
    LET rounded == MathRound(50 * adjustedEdge[2] + 500 * adjustedEdge[1], adjustedEdge[2])
    IN  IF rounded > 100 THEN 100 ELSE IF rounded < 10 THEN 10 ELSE rounded

\* mutant: the lower bound of each band is exclusive
getPickLabel_exclusive(score) ==
    IF score > 85 THEN "D1 PICK"
    ELSE IF score > 70 THEN "SMART BET"
    ELSE IF score > 50 THEN "LEAN"
    ELSE "PASS"

getPickLabel(score) ==
    IF score >= 85 THEN "D1 PICK"
    ELSE IF score >= 70 THEN "SMART BET"
    ELSE IF score >= 50 THEN "LEAN"
    ELSE "PASS"

classifyBet(adjustedEdge) ==
    IF ~FracLess(adjustedEdge, <<7, 100>>) THEN "STRONG BET"
    ELSE IF ~FracLess(adjustedEdge, <<5, 100>>) THEN "GOOD BET"
    ELSE IF ~FracLess(adjustedEdge, <<3, 100>>) THEN "WEAK BET"
    ELSE "PASS"

(***************************************************************************)
(* SpecOdds: the conversions applied to any integer moneyline              *)
(***************************************************************************)
Moneylines == (-MaxMoneyline)..MaxMoneyline

\* model probabilities, in thousandths (0.43, 0.50, 0.60)
ModelProbs == {430, 500, 600}

InitOdds ==
    /\ teamMappings = <<>>
    /\ NormIdle
    /\ MergeIdle
    /\ MatchIdle
    /\ mlIn \in Moneylines
    /\ mlProb = <<0, 1>>
    /\ mlBack = 0
    /\ edgeIn = <<>>
    /\ edgeCalc = <<>>
    /\ aiScore = 0
    /\ pickLabel = "none"
    /\ mlStep = "input"
    /\ PageIdle
    /\ PredictIdle
    /\ FrameIdle
    /\ FetchIdle

ToProb ==
    /\ mlStep = "input"
    /\ mlProb' = moneylineToProb(mlIn)
    /\ mlStep' = "prob"
    /\ UNCHANGED <<teamMappings, normVars, mergeVars, matchVars, mlIn, mlBack, edgeIn, edgeCalc, aiScore, pickLabel>>
    /\ UNCHANGED <<pageVars, predVars, frameVars, fetchVars>>

ToMoneyline ==
    /\ mlStep = "prob"
    /\ mlIn # 0
    /\ mlBack' = probToMoneyline(mlProb)
    /\ mlStep' = "back"
    /\ UNCHANGED <<teamMappings, normVars, mergeVars, matchVars, mlIn, mlProb, edgeIn, edgeCalc, aiScore, pickLabel>>
    /\ UNCHANGED <<pageVars, predVars, frameVars, fetchVars>>

Edge ==
    /\ mlStep = "input"
    /\ \E modelProb \in ModelProbs, isHome \in BOOLEAN, isNeutral \in BOOLEAN :
        /\ edgeIn' = [modelProb |-> modelProb, isHome |-> isHome, isNeutral |-> isNeutral]
        /\ edgeCalc' = calculateEdge(modelProb, mlIn, isHome, isNeutral)
    /\ mlStep' = "edge"
    /\ UNCHANGED <<teamMappings, normVars, mergeVars, matchVars, mlIn, mlProb, mlBack,
                   aiScore, pickLabel>>
    /\ UNCHANGED <<pageVars, predVars, frameVars, fetchVars>>

Score ==
    /\ mlStep = "edge"
    /\ aiScore' = calculateAIScore(edgeCalc.adjustedEdge)
    /\ mlStep' = "score"
    /\ UNCHANGED <<teamMappings, normVars, mergeVars, matchVars, mlIn, mlProb, mlBack,
                   edgeIn, edgeCalc, pickLabel>>
    /\ UNCHANGED <<pageVars, predVars, frameVars, fetchVars>>

Label ==
    /\ mlStep = "score"
    /\ pickLabel' = getPickLabel(aiScore)
    /\ mlStep' = "label"
    /\ UNCHANGED <<teamMappings, normVars, mergeVars, matchVars, mlIn, mlProb, mlBack,
                   edgeIn, edgeCalc, aiScore>>
    /\ UNCHANGED <<pageVars, predVars, frameVars, fetchVars>>

NextOdds == ToProb \/ ToMoneyline \/ Edge \/ Score \/ Label

SpecOdds == InitOdds /\ [][NextOdds]_vars

(***************************************************************************)
(* calculateGameEdges                                                      *)
(***************************************************************************)
\* oddsByTeam[teamName]: the entries whose lowercased team is teamName
teamOddsOf(teamName, entries) ==
    SelectSeq(entries, LAMBDA entry : toLowerCase(entry.team) = teamName)

\* mutant: of equal moneylines the last one wins
RECURSIVE reduceBest_lastOfTies(_, _)
reduceBest_lastOfTies(best, rest) ==
    IF rest = <<>> THEN best
    ELSE reduceBest_lastOfTies(
             IF Head(rest).moneyline >= best.moneyline THEN Head(rest) ELSE best,
             Tail(rest))

\* teamOdds.reduce((best, current) => current.moneyline > best.moneyline ? current : best)
RECURSIVE reduceBest(_, _)
reduceBest(best, rest) ==
    IF rest = <<>> THEN best
    ELSE reduceBest(IF Head(rest).moneyline > best.moneyline THEN Head(rest) ELSE best,
                    Tail(rest))

edgeFor(game, teamName, teamOdds) ==
    LET bestOdd == reduceBest(Head(teamOdds), Tail(teamOdds))
        modelProb == IF teamName = game.teamA THEN game.modelProbA ELSE game.modelProbB
        isHome == IF teamName = game.teamA THEN game.teamAHome ELSE game.teamBHome
        isNeutral == game.venueType = "neutral"
        calc == calculateEdge(modelProb, bestOdd.moneyline, isHome, isNeutral)
        score == calculateAIScore(calc.adjustedEdge)
    IN  [team |-> teamName,
         sportsbook |-> bestOdd.sportsbook,
         moneyline |-> bestOdd.moneyline,
         modelProb |-> modelProb,
         impliedProb |-> calc.impliedProb,
         rawEdge |-> calc.rawEdge,
         adjustedEdge |-> calc.adjustedEdge,
         aiScore |-> score,
         pickLabel |-> getPickLabel(score),
         classification |-> classifyBet(calc.adjustedEdge),
         modifierReason |-> calc.modifierReason]

edgesOfTeam(game, teamName, entries) ==
    IF teamOddsOf(teamName, entries) = <<>> THEN <<>>
    ELSE <<edgeFor(game, teamName, teamOddsOf(teamName, entries))>>

calculateGameEdges(game, entries) ==
    edgesOfTeam(game, game.teamA, entries) \o edgesOfTeam(game, game.teamB, entries)

(***************************************************************************)
(* SpecEdges: step 6 of DailyPicksPage, from the matched games of a day    *)
(***************************************************************************)
EdgeTable ==
    << [canonical |-> <<"a", "_", "b">>, aliases |-> << <<"a", " ", "b">> >>],
       [canonical |-> <<"a">>, aliases |-> << <<"a">> >>] >>

EdgeESPNLists ==
    ESPNListsOver({c \in ESPNChoices :
        c.status = "scheduled" /\ ~c.neutralSite /\ c.pair[1] = <<"B">>})

EdgeWNLists ==
    SeqsUpTo({wnGame(<<"a">>, <<"B">>, 600), wnGame(<<"a", " ", "B">>, <<"B">>, 700)},
             MaxRecords)

\* the prices of the odds feed: (sportsbook, moneyline)
EdgePrices == {<<"fanduel", 130>>, <<"draftkings", 130>>, <<"draftkings", 150>>}

\* h2h outcomes: every price on either team of a at B, one price on each
\* team of "a B" at B
EdgeOddsEntries ==
    {[gameId |-> "ev1", homeTeam |-> <<"B">>, awayTeam |-> <<"a">>,
      sportsbook |-> q[1], team |-> t, moneyline |-> q[2]]
        : q \in EdgePrices, t \in {<<"B">>, <<"a">>}}
    \cup
    {[gameId |-> "ev2", homeTeam |-> <<"B">>, awayTeam |-> <<"a", " ", "B">>,
      sportsbook |-> "draftkings", team |-> <<"B">>, moneyline |-> 130],
     [gameId |-> "ev2", homeTeam |-> <<"B">>, awayTeam |-> <<"a", " ", "B">>,
      sportsbook |-> "draftkings", team |-> <<"a", " ", "B">>, moneyline |-> 130]}

EdgeOddsLists == SeqsUpTo(EdgeOddsEntries, MaxOdds)

InitEdges ==
    /\ teamMappings = EdgeTable
    /\ NormIdle
    /\ espnGames \in EdgeESPNLists
    /\ warrenNolanGames \in EdgeWNLists
    /\ allGames = convertESPNGames(espnGames)
    /\ gamesWithPredictions = mergeWarrenNolanPredictions(allGames, warrenNolanGames)
    /\ oddsEntries \in EdgeOddsLists
    /\ matchedGames = matchGamesWithOdds(gamesWithPredictions, oddsEntries)
    /\ gamesWithEdges = <<>>
    /\ step = "matched"
    /\ OddsIdle
    /\ PageIdle
    /\ PredictIdle
    /\ FrameIdle
    /\ FetchIdle

\* mutant: the edges are calculated for every matched game
withEdges_unguarded(m) ==
    [edges |-> calculateGameEdges(m.game, m.odds), odds |-> <<>>] @@ m.game

withEdges(m) ==
    [edges |-> IF m.game.hasPrediction THEN calculateGameEdges(m.game, m.odds) ELSE <<>>,
     odds |-> IF m.game.hasPrediction THEN <<>> ELSE m.odds] @@ m.game

CalcEdges ==
    /\ step = "matched"
    /\ gamesWithEdges' = [i \in 1..Len(matchedGames) |-> withEdges(matchedGames[i])]
    /\ step' = "edges"
    /\ UNCHANGED <<teamMappings, normVars, espnGames, allGames, warrenNolanGames,
                   gamesWithPredictions, oddsEntries, matchedGames, oddsVars>>
    /\ UNCHANGED <<pageVars, predVars, frameVars, fetchVars>>

\* Math.max(...game.edges.map(e => e.aiScore), 0)
maxScore(game) == Max({0} \cup {game.edges[k].aiScore : k \in 1..Len(game.edges)})

\* the order String.prototype.localeCompare gives the start times
timeRank(startTime) ==
    CASE startTime = "1:00 PM" -> 1 [] startTime = "6:30 PM" -> 2 [] OTHER -> 3

\* Array.prototype.sort (stable) under a comparator that orders by an integer
\* key, smallest first; keys[i] is the key of list[i]
sortByKey(list, keys) ==
    LET before(i) == Cardinality({j \in 1..Len(list) :
                        keys[j] < keys[i] \/ (keys[j] = keys[i] /\ j < i)})
    IN  [p \in 1..Len(list) |-> list[CHOOSE i \in 1..Len(list) : before(i) = p - 1]]

\* (a, b) => bScore - aScore: highest AI score first
sortByScore(list) == sortByKey(list, [i \in 1..Len(list) |-> 0 - maxScore(list[i])])

\* (a, b) => a.startTime.localeCompare(b.startTime)
sortByStartTime(list) == sortByKey(list, [i \in 1..Len(list) |-> timeRank(list[i].startTime)])

isPick(game) ==
    game.hasPrediction /\ \E k \in 1..Len(game.edges) : game.edges[k].pickLabel # "PASS"

isOtherPredicted(game) ==
    game.hasPrediction /\ \A k \in 1..Len(game.edges) : game.edges[k].pickLabel = "PASS"

isOddsOnly(game) == ~game.hasPrediction /\ Len(game.edges) = 0

\* step 7 and the three sorts
SplitAndSort ==
    /\ step = "edges"
    /\ picks' = sortByScore(SelectSeq(gamesWithEdges, isPick))
    /\ otherPredictedGames' = sortByScore(SelectSeq(gamesWithEdges, isOtherPredicted))
    /\ oddsOnlyGames' = sortByStartTime(SelectSeq(gamesWithEdges, isOddsOnly))
    /\ step' = "picks"
    /\ UNCHANGED <<teamMappings, normVars, espnGames, allGames, warrenNolanGames,
                   gamesWithPredictions, matchVars, oddsVars, predVars, frameVars, fetchVars, cards>>

\* GameCard: the edges a card shows
visibleEdges(game, muted) ==
    IF muted THEN game.edges
    ELSE SelectSeq(game.edges, LAMBDA e : e.classification # "PASS")

\* GameCard: "compact" for an odds-only game, "null" when it returns null,
\* "card" otherwise
GameCard(game, muted, oddsOnly) ==
    IF oddsOnly THEN "compact"
    ELSE IF Len(visibleEdges(game, muted)) = 0 /\ ~oddsOnly THEN "null"
    ELSE "card"

\* the three sections of the page
RenderCards ==
    /\ step = "picks"
    /\ cards' = [picks |-> [i \in 1..Len(picks) |-> GameCard(picks[i], FALSE, FALSE)],
                 otherPredictedGames |->
                     [i \in 1..Len(otherPredictedGames) |->
                         GameCard(otherPredictedGames[i], TRUE, FALSE)],
                 oddsOnlyGames |-> [i \in 1..Len(oddsOnlyGames) |-> "compact"]]
    /\ step' = "rendered"
    /\ UNCHANGED <<teamMappings, normVars, espnGames, allGames, warrenNolanGames,
                   gamesWithPredictions, matchVars, oddsVars, predVars, frameVars, fetchVars,
                   picks, otherPredictedGames, oddsOnlyGames>>

NextEdges == CalcEdges \/ SplitAndSort \/ RenderCards

SpecEdges == InitEdges /\ [][NextEdges]_vars

(***************************************************************************)
(* mergeWarrenNolanPredictions on the heap: arrays and Game objects are    *)
(* heap cells, an address is an index of heap.  An array cell is           *)
(* [items |-> addresses], a Game cell is [value |-> the Game].             *)
(***************************************************************************)
\* the Games held by the array at arrayRef
gamesAt(h, arrayRef) ==
    [i \in 1..Len(h[arrayRef].items) |-> h[h[arrayRef].items[i]].value]

\* an array of fresh Game objects, allocated on h; ref is the array's address
allocArray(h, games) ==
    [heap |-> h \o [i \in 1..Len(games) |-> [value |-> games[i]]]
                \o <<[items |-> [i \in 1..Len(games) |-> Len(h) + i]]>>,
     ref |-> Len(h) + Len(games) + 1]

\* mutant: mergedGames is the input array itself
copyGames_sameArray(h, arrayRef) == [heap |-> h, ref |-> arrayRef]

\* espnGames.map(g => ({ ...g })): a new array of new objects
copyGames(h, arrayRef) == allocArray(h, gamesAt(h, arrayRef))

\* mergedGames[matchIndex] = { ...espnGame, ... }: a new object in the slot
assignSlot(h, arrayRef, matchIndex, game) ==
    Append([h EXCEPT ![arrayRef].items[matchIndex] = Len(h) + 1], [value |-> game])

\* mergedGames.push({ ...wnGame, ... })
pushGame(h, arrayRef, game) ==
    Append([h EXCEPT ![arrayRef].items = Append(@, Len(h) + 1)], [value |-> game])

\* one iteration of the loop, on the heap
iterate(h, mergedRef, wn) ==
    LET matchIndex == findIndex(gamesAt(h, mergedRef), wn)
    IN  IF matchIndex # 0
        THEN assignSlot(h, mergedRef, matchIndex,
                        mergeOne(gamesAt(h, mergedRef), wn)[matchIndex])
        ELSE pushGame(h, mergedRef, standalone(wn))

(***************************************************************************)
(* SpecFrame: one call of mergeWarrenNolanPredictions, statement by        *)
(* statement                                                               *)
(***************************************************************************)
FrameESPNLists == ESPNListsOver({c \in ESPNChoices : c.status = "scheduled"})

InitFrame ==
    /\ teamMappings = EdgeTable
    /\ NormIdle
    /\ MergeIdle
    /\ MatchIdle
    /\ OddsIdle
    /\ PageIdle
    /\ PredictIdle
    /\ FetchIdle
    /\ \E records \in FrameESPNLists, wns \in WNGameLists :
        LET espn == allocArray(<<>>, convertESPNGames(records))
            wn == allocArray(espn.heap, wns)
        IN  /\ heap = wn.heap
            /\ heapAtCall = wn.heap
            /\ frame = [pc |-> "call", espnGames |-> espn.ref, warrenNolanGames |-> wn.ref]

\* const mergedGames = espnGames.map(g => ({ ...g }))
CopyGames ==
    /\ frame.pc = "call"
    /\ LET copy == copyGames(heap, frame.espnGames)
       IN  /\ heap' = copy.heap
           /\ frame' = [pc |-> "loop", espnGames |-> frame.espnGames,
                        warrenNolanGames |-> frame.warrenNolanGames,
                        mergedGames |-> copy.ref, i |-> 1]
    /\ UNCHANGED <<teamMappings, normVars, mergeVars, matchVars, oddsVars, pageVars, predVars,
                   heapAtCall, fetchVars>>

\* for (const wnGame of warrenNolanGames) { ... }
Iterate ==
    /\ frame.pc = "loop"
    /\ frame.i <= Len(heap[frame.warrenNolanGames].items)
    /\ heap' = iterate(heap, frame.mergedGames,
                       heap[heap[frame.warrenNolanGames].items[frame.i]].value)
    /\ frame' = [frame EXCEPT !.i = @ + 1]
    /\ UNCHANGED <<teamMappings, normVars, mergeVars, matchVars, oddsVars, pageVars, predVars,
                   heapAtCall, fetchVars>>

\* return mergedGames
Return ==
    /\ frame.pc = "loop"
    /\ frame.i > Len(heap[frame.warrenNolanGames].items)
    /\ frame' = [frame EXCEPT !.pc = "done"]
    /\ UNCHANGED <<teamMappings, normVars, mergeVars, matchVars, oddsVars, pageVars, predVars,
                   heap, heapAtCall, fetchVars>>

NextFrame == CopyGames \/ Iterate \/ Return

SpecFrame == InitFrame /\ [][NextFrame]_vars

(***************************************************************************)
(* Schedule feed: parseStatus and the records fetchESPNGames builds        *)
(***************************************************************************)
\* String.prototype.includes
stringIncludes(s, sub) ==
    \E i \in 1..(Len(s) - Len(sub) + 1) : SubSeq(s, i, i + Len(sub) - 1) = sub

parseStatus(statusName) ==
    LET lower == toLowerCase(statusName)
    IN  IF stringIncludes(lower, <<"s", "c", "h", "e", "d", "u", "l", "e", "d">>) \/ stringIncludes(lower, <<"p", "r", "e">>)
        THEN "scheduled"
        ELSE IF stringIncludes(lower, <<"p", "r", "o", "g", "r", "e", "s", "s">>) \/ stringIncludes(lower, <<"i", "n">>)
        THEN "in_progress"
        ELSE IF stringIncludes(lower, <<"f", "i", "n", "a", "l">>) \/ stringIncludes(lower, <<"p", "o", "s", "t">>)
        THEN "final"
        ELSE IF stringIncludes(lower, <<"p", "o", "s", "t", "p", "o", "n", "e">>) THEN "postponed"
        ELSE IF stringIncludes(lower, <<"c", "a", "n", "c", "e", "l">>) THEN "canceled"
        ELSE "scheduled"

\* event.status?.type?.name of the scoreboard; <<>> stands for a missing name
StatusNames ==
    { <<>>,
      <<"S", "T", "A", "T", "U", "S", "_", "S", "C", "H", "E", "D", "U", "L", "E", "D">>,
      <<"S", "T", "A", "T", "U", "S", "_", "I", "N", "_", "P", "R", "O", "G", "R", "E", "S", "S">>,
      <<"S", "T", "A", "T", "U", "S", "_", "F", "I", "N", "A", "L">>,
      <<"S", "T", "A", "T", "U", "S", "_", "P", "O", "S", "T", "P", "O", "N", "E", "D">>,
      <<"S", "T", "A", "T", "U", "S", "_", "C", "A", "N", "C", "E", "L", "E", "D">>,
      <<"S", "T", "A", "T", "U", "S", "_", "D", "E", "L", "A", "Y", "E", "D">>,
      <<"S", "T", "A", "T", "U", "S", "_", "R", "A", "I", "N", "_", "D", "E", "L", "A", "Y">> }

\* the events of one response: the pairing a at B, at B's or a neutral site
ESPNEvents ==
    [id : {0}, statusName : StatusNames, neutralSite : BOOLEAN,
     homeTeam : {<<"B">>}, awayTeam : {<<"a">>}]

ESPNEventLists ==
    UNION {{[i \in 1..k |-> [e[i] EXCEPT !.id = i]] : e \in [1..k -> ESPNEvents]}
           : k \in 0..MaxGames}

\* the ESPNGame built from the i-th event of the response
parseEvent(event, i) ==
    [id |-> event.id,
     startTime |-> startTimeAt(i),
     homeTeam |-> event.homeTeam,
     awayTeam |-> event.awayTeam,
     neutralSite |-> event.neutralSite,
     status |-> parseStatus(IF event.statusName = <<>> THEN <<"s", "c", "h", "e", "d", "u", "l", "e", "d">>
                            ELSE event.statusName)]

(***************************************************************************)
(* SpecStatus: fetchESPNGames and convertESPNGames on any response         *)
(***************************************************************************)
InitStatus ==
    /\ teamMappings = EdgeTable
    /\ NormIdle
    /\ events \in ESPNEventLists
    /\ espnGames = <<>>
    /\ allGames = <<>>
    /\ warrenNolanGames = <<>>
    /\ gamesWithPredictions = <<>>
    /\ step = "response"
    /\ MatchIdle
    /\ OddsIdle
    /\ PageIdle
    /\ PredictIdle
    /\ FrameIdle

\* fetchESPNGames: the loop over data.events
Fetch ==
    /\ step = "response"
    /\ espnGames' = [i \in 1..Len(events) |-> parseEvent(events[i], i)]
    /\ step' = "fetched"
    /\ UNCHANGED <<teamMappings, normVars, allGames, warrenNolanGames, gamesWithPredictions,
                   matchVars, oddsVars, pageVars, predVars, frameVars, fetchVars>>

NextStatus == Fetch \/ Convert

SpecStatus == InitStatus /\ [][NextStatus]_vars

(***************************************************************************)
(* Score predictor: model-predictor.ts                                     *)
(*                                                                         *)
(* Feature values, intercepts, weights and scaler parameters are integers  *)
(* in thousandths; predictions are exact fractions until Math.round makes  *)
(* them tenths.  Expected runs are in twentieths, win probabilities before *)
(* rounding in millionths and after rounding in thousandths.  An absent    *)
(* property (undefined) is a key outside the DOMAIN.                       *)
(***************************************************************************)
DEFAULT_STATS ==
    [ba |-> 265, slg |-> 390, ops |-> 730, obp |-> 340, era |-> 4500, whip |-> 1350,
     runsScored |-> 5500, runsAllowed |-> 5500, winRate |-> 500]

\* name.toLowerCase().replace(/[^a-z0-9]/g, '_').replace(/_+/g, '_').replace(/^_|_$/g, '')
predictorNormalizeTeamName(name) ==
    LET lower == toLowerCase(name)
        mapped == [i \in 1..Len(lower) |->
                      IF lower[i] \in {"a", "b"} THEN lower[i] ELSE "_"]
        keep == {i \in 1..Len(mapped) : mapped[i] # "_" \/ i = 1 \/ mapped[i - 1] # "_"}
        collapsed == [k \in 1..Cardinality(keep) |->
                         mapped[CHOOSE i \in keep : Cardinality({j \in keep : j <= i}) = k]]
        from == IF collapsed # <<>> /\ Head(collapsed) = "_" THEN 2 ELSE 1
        to == IF Len(collapsed) >= from /\ collapsed[Len(collapsed)] = "_"
              THEN Len(collapsed) - 1 ELSE Len(collapsed)
    IN  SubSeq(collapsed, from, to)

\* mutant: without a store the global defaults are used
getModelCoefficients_defaultsWhenUnloaded(data, team, modelType) ==
    IF ~data.loaded
    THEN [error |-> "none",
          coefficients |-> [intercept |-> 5000, features |-> <<>>,
                            scaler_means |-> <<>>, scaler_stds |-> <<>>],
          isGlobal |-> TRUE]
    ELSE LET normalizedTeam == predictorNormalizeTeamName(team)
         IN  IF normalizedTeam \in DOMAIN data.teams
                /\ modelType \in DOMAIN data.teams[normalizedTeam]
             THEN [error |-> "none",
                   coefficients |-> data.teams[normalizedTeam][modelType],
                   isGlobal |-> FALSE]
             ELSE IF modelType \notin DOMAIN data.global
             THEN [error |-> "no model available"]
             ELSE [error |-> "none",
                   coefficients |-> data.global[modelType],
                   isGlobal |-> TRUE]

\* mutant: a fallback to the global model is not reported
getModelCoefficients_fallbackUnreported(data, team, modelType) ==
    IF ~data.loaded THEN [error |-> "not loaded"]
    ELSE LET normalizedTeam == predictorNormalizeTeamName(team)
         IN  IF normalizedTeam \in DOMAIN data.teams
                /\ modelType \in DOMAIN data.teams[normalizedTeam]
             THEN [error |-> "none",
                   coefficients |-> data.teams[normalizedTeam][modelType],
                   isGlobal |-> FALSE]
             ELSE IF modelType \notin DOMAIN data.global
             THEN [error |-> "no model available"]
             ELSE [error |-> "none",
                   coefficients |-> data.global[modelType],
                   isGlobal |-> FALSE]

\* data is the module variable coefficientsData as the call finds it; a throw
\* is a result whose error is not "none"
getModelCoefficients(data, team, modelType) ==
    IF ~data.loaded THEN [error |-> "not loaded"]
    ELSE LET normalizedTeam == predictorNormalizeTeamName(team)
         IN  IF normalizedTeam \in DOMAIN data.teams
                /\ modelType \in DOMAIN data.teams[normalizedTeam]
             THEN [error |-> "none",
                   coefficients |-> data.teams[normalizedTeam][modelType],
                   isGlobal |-> FALSE]
             ELSE IF modelType \notin DOMAIN data.global
             THEN [error |-> "no model available"]
             ELSE [error |-> "none",
                   coefficients |-> data.global[modelType],
                   isGlobal |-> TRUE]

\* coef * scaledValue of one entry of the feature vector
scaledTerm(coefficients, featureName, featureValue) ==
    IF featureName \notin DOMAIN coefficients.features THEN <<0, 1>>
    ELSE LET coef == coefficients.features[featureName]
             mean == IF featureName \in DOMAIN coefficients.scaler_means
                     THEN coefficients.scaler_means[featureName] ELSE 0
             std == IF featureName \in DOMAIN coefficients.scaler_stds
                       /\ coefficients.scaler_stds[featureName] # 0
                    THEN coefficients.scaler_stds[featureName] ELSE 1000
         IN  IF std > 0
             THEN <<coef * (featureValue - mean), 1000 * std>>
             ELSE <<0, 1>>

\* the loop over Object.entries(features); names are the entries still to
\* visit (those without a weight are skipped by predict)
RECURSIVE sumTerms(_, _, _)
sumTerms(coefficients, features, names) ==
    IF names = {} THEN <<0, 1>>
    ELSE LET f == CHOOSE n \in names : TRUE
         IN  CHOOSE sum \in {FracAdd(scaledTerm(coefficients, f, features[f]),
                                     sumTerms(coefficients, features, rest))
                                 : rest \in {names \ {f}}} : TRUE

\* Math.max(0, prediction)
floorAtZero(prediction) == IF prediction[1] < 0 THEN <<0, 1>> ELSE prediction

predict(coefficients, features) ==
    floorAtZero(FracAdd(<<coefficients.intercept, 1000>>,
                        sumTerms(coefficients, features,
                                 {f \in DOMAIN features : f \in DOMAIN coefficients.features})))

\* input.x ?? DEFAULT_STATS.y
orDefault(input, field, default) ==
    IF field \in DOMAIN input THEN input[field] ELSE default

buildOffenseFeatures(input) ==
    [day_of_week |-> 1000 * input.dayOfWeek,
     is_home |-> IF input.isHome THEN 1000 ELSE 0,
     is_neutral |-> IF input.isNeutral THEN 1000 ELSE 0,
     team_ba |-> orDefault(input, "teamBa", DEFAULT_STATS.ba),
     team_slg |-> orDefault(input, "teamSlg", DEFAULT_STATS.slg),
     team_ops |-> orDefault(input, "teamOps", DEFAULT_STATS.ops),
     team_obp |-> orDefault(input, "teamObp", DEFAULT_STATS.obp),
     opp_era |-> orDefault(input, "oppEra", DEFAULT_STATS.era),
     opp_whip |-> orDefault(input, "oppWhip", DEFAULT_STATS.whip),
     recent_runs_scored_avg |-> orDefault(input, "recentRunsScoredAvg", DEFAULT_STATS.runsScored),
     recent_runs_allowed_avg |-> orDefault(input, "recentRunsAllowedAvg", DEFAULT_STATS.runsAllowed),
     opp_recent_runs_allowed_avg |->
         orDefault(input, "oppRecentRunsAllowedAvg", DEFAULT_STATS.runsAllowed),
     recent_win_rate |-> orDefault(input, "recentWinRate", DEFAULT_STATS.winRate)]

buildDefenseFeatures(input) ==
    [day_of_week |-> 1000 * input.dayOfWeek,
     is_home |-> IF input.isHome THEN 1000 ELSE 0,
     is_neutral |-> IF input.isNeutral THEN 1000 ELSE 0,
     team_era |-> orDefault(input, "teamEra", DEFAULT_STATS.era),
     team_whip |-> orDefault(input, "teamWhip", DEFAULT_STATS.whip),
     opp_ba |-> orDefault(input, "oppBa", DEFAULT_STATS.ba),
     opp_slg |-> orDefault(input, "oppSlg", DEFAULT_STATS.slg),
     opp_ops |-> orDefault(input, "oppOps", DEFAULT_STATS.ops),
     recent_runs_scored_avg |-> orDefault(input, "recentRunsScoredAvg", DEFAULT_STATS.runsScored),
     recent_runs_allowed_avg |-> orDefault(input, "recentRunsAllowedAvg", DEFAULT_STATS.runsAllowed),
     opp_recent_runs_scored_avg |->
         orDefault(input, "oppRecentRunsScoredAvg", DEFAULT_STATS.runsScored),
     recent_win_rate |-> orDefault(input, "recentWinRate", DEFAULT_STATS.winRate)]

\* Math.round(x * 10) / 10, in tenths
roundToTenth(x) == MathRound(10 * x[1], x[2])

\* the ScorePrediction built from the two sets of coefficients
scorePrediction(features, offense, defense) ==
    IF offense.error # "none" THEN [error |-> offense.error]
    ELSE IF defense.error # "none" THEN [error |-> defense.error]
    ELSE [error |-> "none",
          team |-> features.team,
          predictedRunsScored |->
              roundToTenth(predict(offense.coefficients, buildOffenseFeatures(features))),
          predictedRunsAllowed |->
              roundToTenth(predict(defense.coefficients, buildDefenseFeatures(features))),
          usedGlobalModel |-> offense.isGlobal \/ defense.isGlobal]

\* the runs of the ScorePrediction are in tenths
predictTeamScore(data, features) ==
    scorePrediction(features,
                    getModelCoefficients(data, features.team, "offense"),
                    getModelCoefficients(data, features.team, "defense"))

\* floor(10^6 / (1 + e^(-0.35 * d / 20))) for a run differential of d
\* twentieths, d = 0, 1, ..., 264; above 0.99 from d = 263 on
LogisticMillionths ==
    <<
       500000, 504374, 508749, 513121, 517492, 521861, 526225, 530586,
       534942, 539293, 543638, 547976, 552307, 556630, 560945, 565250,
       569546, 573831, 578105, 582367, 586617, 590854, 595078, 599288,
       603483, 607663, 611827, 615975, 620106, 624220, 628316, 632393,
       636452, 640491, 644511, 648510, 652489, 656446, 660382, 664296,
       668187, 672056, 675901, 679723, 683520, 687294, 691043, 694766,
       698465, 702138, 705785, 709405, 713000, 716567, 720108, 723622,
       727108, 730566, 733997, 737400, 740774, 744121, 747439, 750728,
       753988, 757220, 760423, 763596, 766741, 769856, 772942, 775998,
       779026, 782023, 784992, 787931, 790840, 793720, 796571, 799392,
       802183, 804946, 807679, 810382, 813057, 815702, 818319, 820906,
       823464, 825994, 828495, 830967, 833411, 835826, 838214, 840573,
       842904, 845207, 847483, 849731, 851952, 854146, 856313, 858452,
       860566, 862652, 864713, 866747, 868755, 870738, 872694, 874626,
       876532, 878414, 880271, 882103, 883911, 885694, 887454, 889190,
       890903, 892592, 894258, 895902, 897522, 899121, 900697, 902251,
       903784, 905295, 906785, 908253, 909701, 911129, 912535, 913922,
       915289, 916636, 917964, 919272, 920561, 921831, 923083, 924316,
       925532, 926729, 927908, 929070, 930215, 931342, 932453, 933547,
       934624, 935685, 936730, 937760, 938773, 939772, 940754, 941722,
       942675, 943614, 944538, 945447, 946343, 947225, 948093, 948947,
       949788, 950616, 951431, 952234, 953023, 953801, 954566, 955319,
       956060, 956789, 957507, 958213, 958908, 959592, 960265, 960928,
       961580, 962221, 962852, 963473, 964084, 964685, 965276, 965858,
       966430, 966993, 967547, 968092, 968629, 969156, 969675, 970185,
       970687, 971181, 971667, 972145, 972615, 973077, 973532, 973979,
       974419, 974851, 975277, 975695, 976107, 976512, 976910, 977301,
       977686, 978065, 978437, 978803, 979163, 979517, 979865, 980208,
       980544, 980875, 981201, 981521, 981836, 982145, 982450, 982749,
       983043, 983332, 983617, 983896, 984171, 984441, 984707, 984969,
       985225, 985478, 985726, 985970, 986211, 986446, 986678, 986907,
       987131, 987351, 987568, 987781, 987990, 988196, 988399, 988598,
       988793, 988985, 989174, 989360, 989543, 989722, 989899, 990072,
       990243
    >>

\* mutant: the run differential is taken the other way round
calculateWinProbability_reversed(teamAExpectedRuns, teamBExpectedRuns) ==
    LET runDiff == teamBExpectedRuns - teamAExpectedRuns
        at == Min({Abs(runDiff) + 1, Len(LogisticMillionths)})
        prob == IF runDiff >= 0 THEN LogisticMillionths[at]
                ELSE 1000000 - LogisticMillionths[at]
    IN  Max({10000, Min({990000, prob})})

\* expected runs in twentieths; the result in millionths
calculateWinProbability(teamAExpectedRuns, teamBExpectedRuns) ==
    LET runDiff == teamAExpectedRuns - teamBExpectedRuns
        at == Min({Abs(runDiff) + 1, Len(LogisticMillionths)})
        prob == IF runDiff >= 0 THEN LogisticMillionths[at]
                ELSE 1000000 - LogisticMillionths[at]
    IN  Max({10000, Min({990000, prob})})

\* the GamePrediction from the expected runs (twentieths) and the win
\* probability of team A (millionths)
gameResult(teamAPrediction, teamBPrediction, teamAExpectedRuns, teamBExpectedRuns, teamAWinProb) ==
    [error |-> "none",
     teamA |-> [teamAPrediction EXCEPT
                   !.predictedRunsScored = MathRound(teamAExpectedRuns, 2)],
     teamB |-> [teamBPrediction EXCEPT
                   !.predictedRunsScored = MathRound(teamBExpectedRuns, 2)],
     teamAWinProb |-> MathRound(teamAWinProb, 1000),
     teamBWinProb |-> MathRound(1000000 - teamAWinProb, 1000),
     expectedTotalRuns |-> MathRound(teamAExpectedRuns + teamBExpectedRuns, 2),
     spreadA |-> MathRound(teamAExpectedRuns - teamBExpectedRuns, 2)]

\* expected runs: the average of own offense and the opponent's defense
gameFromExpectedRuns(teamAPrediction, teamBPrediction, teamAExpectedRuns, teamBExpectedRuns) ==
    gameResult(teamAPrediction, teamBPrediction, teamAExpectedRuns, teamBExpectedRuns,
               calculateWinProbability(teamAExpectedRuns, teamBExpectedRuns))

gameFromScores(teamAPrediction, teamBPrediction) ==
    IF teamAPrediction.error # "none" THEN [error |-> teamAPrediction.error]
    ELSE IF teamBPrediction.error # "none" THEN [error |-> teamBPrediction.error]
    ELSE gameFromExpectedRuns(
             teamAPrediction, teamBPrediction,
             teamAPrediction.predictedRunsScored + teamBPrediction.predictedRunsAllowed,
             teamBPrediction.predictedRunsScored + teamAPrediction.predictedRunsAllowed)

predictGame(data, teamAFeatures, teamBFeatures) ==
    gameFromScores(predictTeamScore(data, teamAFeatures),
                   predictTeamScore(data, teamBFeatures))

isModelLoaded == coefficientsData.loaded

(***************************************************************************)
(* SpecPredict: loads of the coefficient store and prediction calls, in    *)
(* any order                                                               *)
(***************************************************************************)
NoWeights == [intercept |-> 5000, features |-> <<>>, scaler_means |-> <<>>, scaler_stds |-> <<>>]

\* the models of coefficients.json: a constant, one weighted by is_home over
\* a scaler with std 0.5, with std 0, with a negative std, a negative
\* constant and a large constant
FlatModel == NoWeights

HomeModel ==
    [intercept |-> 4000, features |-> [is_home |-> 500],
     scaler_means |-> [is_home |-> 500], scaler_stds |-> [is_home |-> 500]]

ZeroStdModel ==
    [intercept |-> 2000, features |-> [is_home |-> 300],
     scaler_means |-> <<>>, scaler_stds |-> [is_home |-> 0]]

NegativeStdModel ==
    [intercept |-> 2000, features |-> [is_home |-> 300],
     scaler_means |-> <<>>, scaler_stds |-> [is_home |-> -500]]

NegativeModel == [NoWeights EXCEPT !.intercept = -1000]

BigModel == [NoWeights EXCEPT !.intercept = 30000]

GlobalModels == {[offense |-> FlatModel, defense |-> FlatModel], [offense |-> FlatModel]}

\* teams of coefficients.json; the key "B" is one that no lookup produces
TeamModelTables ==
    {<<>>,
     (<<"a">> :> [offense |-> HomeModel, defense |-> NegativeModel]),
     (<<"a">> :> [offense |-> ZeroStdModel])
         @@ (<<"b">> :> [offense |-> BigModel, defense |-> NegativeStdModel]),
     (<<"B">> :> [offense |-> BigModel, defense |-> BigModel])}

\* the documents of coefficients.json; model_info counts the team models
CoefficientStores ==
    {[loaded |-> TRUE,
      model_info |-> [teams_with_models |-> Cardinality(DOMAIN t)],
      global |-> g,
      teams |-> t] : g \in GlobalModels, t \in TeamModelTables}

\* mutant: a load over a loaded store keeps the teams it already has
assignStore_keepTeams(current, data) ==
    IF current.loaded THEN [data EXCEPT !.teams = current.teams] ELSE data

\* coefficientsData = JSON.parse(data): the variable is bound to the new
\* document as a whole
assignStore(current, data) == data

PredictTeams == {<<"a">>, <<"B">>, <<"a", " ", "B">>}

\* the GameFeatures handed to the predictor; the optional statistics are absent
GameFeaturesSet ==
    {[team |-> t, dayOfWeek |-> 2, isHome |-> h, isNeutral |-> FALSE]
        : t \in PredictTeams, h \in BOOLEAN}

\* the two sides of a game: different teams, one of them at home
GameFeaturesPairs ==
    {p \in GameFeaturesSet \X GameFeaturesSet :
        p[1].team # p[2].team /\ p[1].isHome # p[2].isHome}

InitPredict ==
    /\ teamMappings = <<>>
    /\ NormIdle
    /\ MergeIdle
    /\ MatchIdle
    /\ OddsIdle
    /\ PageIdle
    /\ PredictIdle
    /\ FrameIdle
    /\ FetchIdle

\* mutant: a failed load keeps the store it found
catchStore_keep(current) == current

\* catch (error) { ...; coefficientsData = null }
catchStore(current) == [loaded |-> FALSE]

\* loadCoefficients is called and runs up to its first await
CallLoadCoefficients ==
    /\ pendingLoads < MaxLoads
    /\ pendingLoads' = pendingLoads + 1
    /\ UNCHANGED <<teamMappings, normVars, mergeVars, matchVars, oddsVars, pageVars,
                   coefficientsData, lastLoad, call, frameVars, fetchVars>>

\* loadCoefficients resumes; read and parse succeed
LoadCoefficients ==
    /\ pendingLoads > 0
    /\ pendingLoads' = pendingLoads - 1
    /\ \E data \in CoefficientStores : coefficientsData' = assignStore(coefficientsData, data)
    /\ lastLoad' = "parsed"
    /\ UNCHANGED <<teamMappings, normVars, mergeVars, matchVars, oddsVars, pageVars, call, frameVars, fetchVars>>

\* loadCoefficients resumes; the catch branch
LoadCoefficientsFails ==
    /\ pendingLoads > 0
    /\ pendingLoads' = pendingLoads - 1
    /\ coefficientsData' = catchStore(coefficientsData)
    /\ lastLoad' = "caught"
    /\ UNCHANGED <<teamMappings, normVars, mergeVars, matchVars, oddsVars, pageVars, call, frameVars, fetchVars>>

SetCoefficients ==
    /\ \E data \in CoefficientStores : coefficientsData' = assignStore(coefficientsData, data)
    /\ UNCHANGED <<teamMappings, normVars, mergeVars, matchVars, oddsVars, pageVars,
                   pendingLoads, lastLoad, call, frameVars, fetchVars>>

PredictTeamScore ==
    /\ \E features \in GameFeaturesSet :
        call' = [fn |-> "predictTeamScore",
                 data |-> coefficientsData,
                 args |-> <<features>>,
                 result |-> predictTeamScore(coefficientsData, features)]
    /\ UNCHANGED <<teamMappings, normVars, mergeVars, matchVars, oddsVars, pageVars,
                   coefficientsData, pendingLoads, lastLoad, frameVars, fetchVars>>

PredictGame ==
    /\ \E pair \in GameFeaturesPairs :
        call' = [fn |-> "predictGame",
                 data |-> coefficientsData,
                 args |-> pair,
                 result |-> predictGame(coefficientsData, pair[1], pair[2])]
    /\ UNCHANGED <<teamMappings, normVars, mergeVars, matchVars, oddsVars, pageVars,
                   coefficientsData, pendingLoads, lastLoad, frameVars, fetchVars>>

NextPredict ==
    CallLoadCoefficients \/ LoadCoefficients \/ LoadCoefficientsFails \/ SetCoefficients
        \/ PredictTeamScore \/ PredictGame

SpecPredict == InitPredict /\ [][NextPredict]_vars

(***************************************************************************)
(* Claims about normalizeTeamName                                          *)
(***************************************************************************)
OutChars == {"a", "b", "B", " ", "_"}

IsString(s) == DOMAIN s = 1..Len(s) /\ \A i \in 1..Len(s) : s[i] \in OutChars

\* the entries of the table, by index, whose alias list holds the string r
Owners(r) == {i \in 1..Len(teamMappings) : \E k \in 1..Len(teamMappings[i].aliases) :
                                            teamMappings[i].aliases[k] = r}

\* the name lowercased, from its first to its last non-blank character
LowerTrimmed(s) ==
    LET low == [i \in 1..Len(s) |-> LowerChar(s[i])]
        solid == {i \in 1..Len(low) : low[i] # " "}
    IN  IF solid = {} THEN <<>> ELSE SubSeq(low, Min(solid), Max(solid))

\* n with every blank that follows a blank dropped and the other blanks as "_"
Underscored(n) ==
    LET keep == {i \in 1..Len(n) : ~(n[i] = " " /\ i > 1 /\ n[i - 1] = " ")}
        nth(k) == CHOOSE i \in keep : Cardinality({j \in keep : j <= i}) = k
    IN  [k \in 1..Cardinality(keep) |-> IF n[nth(k)] = " " THEN "_" ELSE n[nth(k)]]

\* C6 (as claimed): normalize(normalize(x)) = normalize(x) for every name x,
\* here even restricted to tables in which no alias is listed twice.
AliasesUnique ==
    \A i, j \in 1..Len(teamMappings) :
        \A k \in 1..Len(teamMappings[i].aliases), l \in 1..Len(teamMappings[j].aliases) :
            teamMappings[i].aliases[k] = teamMappings[j].aliases[l] => (i = j /\ k = l)

C7Normalize ==
    normCalled =>
        LET n == LowerTrimmed(nameIn)
        IN  /\ IsString(nameOut)
            /\ Owners(n) # {} =>
                  \E i \in Owners(n) : /\ \A j \in Owners(n) : i <= j
                                       /\ nameOut = teamMappings[i].canonical
            /\ Owners(n) = {} => nameOut = Underscored(n)

\* an untrimmed, capitalised name listed by two entries: the first one wins
C7Witness ==
    /\ normCalled
    /\ nameIn = <<" ", "B", " ">>
    /\ Cardinality(Owners(<<"b">>)) = 2
    /\ nameOut = teamMappings[1].canonical

(***************************************************************************)
(* Claims about mergeWarrenNolanPredictions                                *)
(***************************************************************************)
\* the normalized unordered team pair of a game or prediction record
PairOf(x) == {normalizeTeamName(x.teamA), normalizeTeamName(x.teamB)}

\* C1: the merged list is at least as long as the schedule list and its
\* i-th game has the id, teamA and teamB of the i-th schedule game.
C1NeverDrops ==
    step = "merged" =>
        /\ Len(gamesWithPredictions) >= Len(allGames)
        /\ \A i \in 1..Len(allGames) :
            /\ gamesWithPredictions[i].id = allGames[i].id
            /\ gamesWithPredictions[i].teamA = allGames[i].teamA
            /\ gamesWithPredictions[i].teamB = allGames[i].teamB

\* two schedule games, one of them matched by a record, and a record that
\* matched none and was appended
C1Witness ==
    /\ step = "merged"
    /\ Len(allGames) = 2
    /\ Len(gamesWithPredictions) = 3
    /\ \E i \in 1..2 : gamesWithPredictions[i].hasPrediction

\* C2: a schedule game that received a prediction holds the probabilities of
\* a record with its team pair, assigned by team: as listed when the
\* record's first team is the game's teamA, swapped otherwise; and every
\* record whose pair is that of a schedule game gives a prediction to such
\* a game.
C2ByTeam ==
    step = "merged" =>
        /\ \A i \in 1..Len(allGames) :
            LET g == allGames[i]
                m == gamesWithPredictions[i]
            IN  m.hasPrediction =>
                  /\ m.predictionSource = "warren_nolan"
                  /\ \E j \in 1..Len(warrenNolanGames) :
                        LET r == warrenNolanGames[j]
                        IN  /\ PairOf(r) = PairOf(g)
                            /\ IF normalizeTeamName(r.teamA) = normalizeTeamName(g.teamA)
                               THEN m.modelProbA = r.modelProbA /\ m.modelProbB = r.modelProbB
                               ELSE m.modelProbA = r.modelProbB /\ m.modelProbB = r.modelProbA
        /\ \A j \in 1..Len(warrenNolanGames) :
            (\E i \in 1..Len(allGames) : PairOf(allGames[i]) = PairOf(warrenNolanGames[j]))
            => \E i \in 1..Len(allGames) :
                   /\ PairOf(allGames[i]) = PairOf(warrenNolanGames[j])
                   /\ gamesWithPredictions[i].hasPrediction

\* Scenario D: away a_b at home b, record (b, "a b", 0.60 for "a b")
C2Witness ==
    /\ step = "merged"
    /\ Len(allGames) = 1
    /\ allGames[1].teamA = <<"a", "_", "b">>
    /\ allGames[1].teamB = <<"b">>
    /\ Len(warrenNolanGames) = 1
    /\ warrenNolanGames[1].teamA = <<"b">>
    /\ warrenNolanGames[1].teamB = <<"a", " ", "b">>
    /\ warrenNolanGames[1].modelProbB = 600
    /\ gamesWithPredictions[1].modelProbA = 600
    /\ gamesWithPredictions[1].modelProbB = 400
    /\ gamesWithPredictions[1].hasPrediction

(***************************************************************************)
(* Claims about matchGamesWithOdds                                         *)
(***************************************************************************)
\* C4: one (game, odds) pair per game, in input order; a game none of whose
\* teams any entry names is still there, with an empty odds list.
C4KeepsEveryGame ==
    step = "matched" =>
        /\ Len(matchedGames) = Len(gamesWithPredictions)
        /\ \A i \in 1..Len(gamesWithPredictions) :
            /\ matchedGames[i].game = gamesWithPredictions[i]
            /\ (\A k \in 1..Len(oddsEntries) :
                    {normalizeTeamName(oddsEntries[k].homeTeam),
                     normalizeTeamName(oddsEntries[k].awayTeam)}
                        \cap {gamesWithPredictions[i].teamA, gamesWithPredictions[i].teamB} = {})
               => matchedGames[i].odds = <<>>

\* three games, the first with odds, the last without
C4Witness ==
    /\ step = "matched"
    /\ Len(gamesWithPredictions) = 3
    /\ Len(matchedGames) = 3
    /\ matchedGames[1].odds # <<>>
    /\ matchedGames[3].odds = <<>>

\* the entries whose normalized {home, away} set is the game's {teamA, teamB}
SetEqualEntries(game, entries) ==
    SelectSeq(entries, LAMBDA e :
        {normalizeTeamName(e.homeTeam), normalizeTeamName(e.awayTeam)}
            = {game.teamA, game.teamB})

\* C5 (as claimed): an entry is attached to a game exactly when its
\* normalized {home, away} set equals the game's {teamA, teamB}.
C5SetEquality ==
    step = "matched" =>
        \A i \in 1..Len(matchedGames) :
            matchedGames[i].odds = SetEqualEntries(matchedGames[i].game, oddsEntries)

(***************************************************************************)
(* Claims about the moneyline conversions                                  *)
(***************************************************************************)
\* C8 (as claimed): a moneyline of 0 is rejected; neither moneylineToProb
\* nor calculateEdge returns a value computed from it.
C8RejectsZero == ~(mlIn = 0 /\ mlStep \in {"prob", "edge"})

\* C9 (as claimed): for every valid integer moneyline m,
\* probToMoneyline(moneylineToProb(m)) differs from m by at most 1; stated
\* here for the moneylines with |m| >= 100 alone, those a sportsbook quotes.
C9Original ==
    (mlStep = "back" /\ Abs(mlIn) >= 100) => Abs(mlBack - mlIn) <= 1

\* C9 (amended): the round trip returns m (within 1) for every integer
\* moneyline m <= -100 or m > 100; +100 comes back as -100.
C9RoundTrip ==
    mlStep = "back" =>
        /\ (mlIn <= -100 \/ mlIn > 100) => Abs(mlBack - mlIn) <= 1
        /\ mlIn = 100 => mlBack = -100

\* a favourite's moneyline has made the round trip
C9Witness == mlStep = "back" /\ mlIn = -150 /\ mlBack = -150

SameSign(a, b) == (a > 0 /\ b > 0) \/ (a < 0 /\ b < 0)

\* C10 (as claimed): for nonzero moneylines a, b of the same sign with
\* |a| < |b|, moneylineToProb(a) > moneylineToProb(b).
C10Original ==
    mlStep = "prob" =>
        \A b \in Moneylines :
            (SameSign(mlIn, b) /\ Abs(mlIn) < Abs(b))
            => FracLess(moneylineToProb(b), mlProb)

\* C10 (amended): moneylineToProb is strictly decreasing in |moneyline| for
\* positive moneylines and strictly increasing in |moneyline| for negative
\* ones; moneylineToProb(100) = moneylineToProb(-100) = 1/2.
C10Monotone ==
    mlStep = "prob" =>
        /\ \A b \in Moneylines :
            /\ (mlIn > 0 /\ b > mlIn) => FracLess(moneylineToProb(b), mlProb)
            /\ (mlIn < 0 /\ b < mlIn) => FracLess(mlProb, moneylineToProb(b))
        /\ mlIn \in {100, -100} => FracEq(mlProb, <<1, 2>>)

\* the implied probability of a favourite at -110 (11/21)
C10Witness == mlStep = "prob" /\ mlIn = -110 /\ FracEq(mlProb, <<11, 21>>)

(***************************************************************************)
(* Claims about calculateGameEdges                                         *)
(***************************************************************************)
EdgesFor(g, t) == {k \in 1..Len(g.edges) : g.edges[k].team = t}

\* C3 (as claimed): for a game with a prediction there is exactly one
\* BetEdge for each of its teams that some supplied odds entry names after
\* normalization, and none for a team that no entry names.
C3OneEdgePerNamedTeam ==
    step = "edges" =>
        \A i \in 1..Len(gamesWithEdges) :
            gamesWithEdges[i].hasPrediction =>
                \A t \in {gamesWithEdges[i].teamA, gamesWithEdges[i].teamB} :
                    Cardinality(EdgesFor(gamesWithEdges[i], t))
                        = IF \E k \in 1..Len(matchedGames[i].odds) :
                                normalizeTeamName(matchedGames[i].odds[k].team) = t
                          THEN 1 ELSE 0

(***************************************************************************)
(* Claims about calculateEdge, calculateAIScore and getPickLabel           *)
(***************************************************************************)
\* the venue modifier the claim names: 0.005 at home, else 0.0025 on a neutral
\* site, else 0
ClaimedModifier ==
    IF edgeIn.isHome THEN <<1, 200>>
    ELSE IF edgeIn.isNeutral THEN <<1, 400>> ELSE <<0, 1>>

\* C11: calculateEdge returns rawEdge = modelProb - impliedProb(moneyline) and
\* adjustedEdge = rawEdge + m with m = 0.005 if isHome, otherwise 0.0025 if
\* isNeutral, otherwise 0; home takes precedence, the modifiers are never
\* added together, and modifierReason is null exactly when m = 0.
C11EdgeAndModifier ==
    mlStep = "edge" =>
        /\ FracEq(FracAdd(edgeCalc.rawEdge, moneylineToProb(mlIn)),
                  <<edgeIn.modelProb, 1000>>)
        /\ FracEq(FracSub(edgeCalc.adjustedEdge, edgeCalc.rawEdge), ClaimedModifier)
        /\ (edgeCalc.modifierReason = "null") <=> (ClaimedModifier[1] = 0)

\* Scenario B at a home game that is also flagged neutral: +130, 0.50 gives
\* 3/46 + 1/200 = 323/4600
C11Witness ==
    /\ mlStep = "edge"
    /\ mlIn = 130
    /\ edgeIn = [modelProb |-> 500, isHome |-> TRUE, isNeutral |-> TRUE]
    /\ FracEq(edgeCalc.adjustedEdge, <<323, 4600>>)

\* adjusted edges from -0.120 to 0.120 in steps of 0.001
ScoreProbes == {<<n, 1000>> : n \in -120..120}

\* C12: aiScore equals 5 + 50 * adjustedEdge rounded to one decimal and then
\* clamped to [1, 10]; it always lies in [1, 10] and is non-decreasing in
\* adjustedEdge.  (aiScore is in tenths.)
C12ScoreClampedMonotone ==
    mlStep = "score" =>
        LET e == edgeCalc.adjustedEdge
            x == 50 * e[2] + 500 * e[1]
            r == CHOOSE r \in ((x \div e[2]) - 1)..((x \div e[2]) + 1) :
                    /\ -e[2] <= 2 * (x - r * e[2])
                    /\ 2 * (x - r * e[2]) < e[2]
        IN  /\ aiScore = Min({100, Max({10, r})})
            /\ aiScore \in 10..100
            /\ \A p \in ScoreProbes :
                /\ FracLess(p, e) => calculateAIScore(p) <= aiScore
                /\ FracLess(e, p) => aiScore <= calculateAIScore(p)

\* an adjusted edge above 0.10 is scored 10.0
C12Witness ==
    mlStep = "score" /\ aiScore = 100 /\ FracLess(<<1, 10>>, edgeCalc.adjustedEdge)

LabelRank(l) ==
    CASE l = "PASS" -> 0 [] l = "LEAN" -> 1 [] l = "SMART BET" -> 2 [] l = "D1 PICK" -> 3

EntriesOf(i, t) ==
    {j \in 1..Len(matchedGames[i].odds) :
        normalizeTeamName(matchedGames[i].odds[j].team) = t}

NotLoadedError == [error |-> "not loaded"]

\* C15: a prediction call (predictTeamScore, predictGame) made while the
\* coefficient store is not loaded fails with the not-loaded error and
\* returns no prediction; it substitutes no defaults and no global model,
\* and the store is left unloaded.
C15NotLoadedFails ==
    [][(~coefficientsData.loaded /\ call' # call)
          => (call'.result = NotLoadedError /\ coefficientsData' = coefficientsData)]_vars

\* predictGame was called on an unloaded store, which is still unloaded
C15Witness ==
    /\ call.fn = "predictGame"
    /\ ~call.data.loaded
    /\ call.result = NotLoadedError
    /\ ~coefficientsData.loaded

\* what the claim says getModel(team, kind) returns over a loaded store whose
\* teams are looked up under key
ClaimedModel(data, key, kind) ==
    IF key \in DOMAIN data.teams /\ kind \in DOMAIN data.teams[key]
    THEN [error |-> "none", coefficients |-> data.teams[key][kind], isGlobal |-> FALSE]
    ELSE IF kind \in DOMAIN data.global
    THEN [error |-> "none", coefficients |-> data.global[kind], isGlobal |-> TRUE]
    ELSE [error |-> "no model available"]

ModelKinds == {"offense", "defense"}

\* the team of the last predictTeamScore call over a loaded store
ScoredTeam == call.args[1].team

TeamScoreOverLoaded == call.fn = "predictTeamScore" /\ call.data.loaded

\* usedGlobalModel is reported exactly when one of the two lookups under key
\* fell back to the global model
FallbackReported(key) ==
    LET offense == ClaimedModel(call.data, key, "offense")
        defense == ClaimedModel(call.data, key, "defense")
    IN  IF offense.error # "none" \/ defense.error # "none"
        THEN call.result.error = "no model available"
        ELSE /\ call.result.error = "none"
             /\ call.result.usedGlobalModel <=> (offense.isGlobal \/ defense.isGlobal)

\* C16 (as claimed): with the store loaded, getModel(team, kind) returns the
\* team-specific model with usedGlobal = false when teams[team][kind] exists,
\* otherwise the global model of that kind with usedGlobal = true, and fails
\* when the global model of that kind is missing too; a score prediction
\* reports usedGlobalModel = true iff its offense or its defense model fell
\* back to global.
C16Original ==
    TeamScoreOverLoaded =>
        /\ \A kind \in ModelKinds :
            getModelCoefficients(call.data, ScoredTeam, kind)
                = ClaimedModel(call.data, ScoredTeam, kind)
        /\ FallbackReported(ScoredTeam)

\* C16 (amended): the same, with the team looked up in teams under its
\* predictor-normalized name (lowercased, every run of characters other
\* than a-z and 0-9 replaced by one underscore, outer underscores removed).
C16NormalizedLookup ==
    TeamScoreOverLoaded =>
        /\ \A kind \in ModelKinds :
            getModelCoefficients(call.data, ScoredTeam, kind)
                = ClaimedModel(call.data, predictorNormalizeTeamName(ScoredTeam), kind)
        /\ FallbackReported(predictorNormalizeTeamName(ScoredTeam))

\* team "a" has an offense model of its own and no defense model: the
\* prediction uses the team's offense model (2.0 or 2.3 runs, not the global
\* 5.0) and reports the fallback of the defense model
C16Witness ==
    /\ TeamScoreOverLoaded
    /\ ScoredTeam = <<"a">>
    /\ <<"a">> \in DOMAIN call.data.teams
    /\ "defense" \notin DOMAIN call.data.teams[<<"a">>]
    /\ call.result.error = "none"
    /\ call.result.predictedRunsScored < 50
    /\ call.result.usedGlobalModel

\* the standardized value of the claim: (value - mean) / std when the scaler
\* std is above 0, and 0 otherwise
ClaimedTerm(coefficients, featureName, featureValue) ==
    LET mean == IF featureName \in DOMAIN coefficients.scaler_means
                THEN coefficients.scaler_means[featureName] ELSE 0
        std == IF featureName \in DOMAIN coefficients.scaler_stds
               THEN coefficients.scaler_stds[featureName] ELSE 1000
    IN  IF std > 0
        THEN <<coefficients.features[featureName] * (featureValue - mean), 1000 * std>>
        ELSE <<0, 1>>

RECURSIVE ClaimedSum(_, _, _)
ClaimedSum(coefficients, features, names) ==
    IF names = {} THEN <<0, 1>>
    ELSE LET f == CHOOSE n \in names : TRUE
         IN  CHOOSE sum \in {FracAdd(ClaimedTerm(coefficients, f, features[f]),
                                     ClaimedSum(coefficients, features, rest))
                                 : rest \in {names \ {f}}} : TRUE

ClaimedPredict(coefficients, features) ==
    LET weighted == DOMAIN features \cap DOMAIN coefficients.features
        sum == FracAdd(<<coefficients.intercept, 1000>>,
                       ClaimedSum(coefficients, features, weighted))
    IN  IF sum[1] < 0 THEN <<0, 1>> ELSE sum

\* C17 (as claimed): predict(model, features) = max(0, intercept + the sum of
\* weight_i * z_i) over the features that have a weight, with z_i = (value_i -
\* mean_i) / std_i when the scaler std_i > 0 and z_i = 0 otherwise; a feature
\* whose scaler std is 0 contributes nothing, and the result is never
\* negative.
C17PredictAsClaimed ==
    (TeamScoreOverLoaded /\ call.result.error = "none") =>
        LET features == call.args[1]
            offense == getModelCoefficients(call.data, features.team, "offense").coefficients
            defense == getModelCoefficients(call.data, features.team, "defense").coefficients
            scored == ClaimedPredict(offense, buildOffenseFeatures(features))
            allowed == ClaimedPredict(defense, buildDefenseFeatures(features))
        IN  /\ call.result.predictedRunsScored = MathRound(10 * scored[1], scored[2])
            /\ call.result.predictedRunsAllowed = MathRound(10 * allowed[1], allowed[2])
            /\ call.result.predictedRunsScored >= 0
            /\ call.result.predictedRunsAllowed >= 0

GameOverLoaded == call.fn = "predictGame" /\ call.data.loaded /\ call.result.error = "none"

\* C18: with the store loaded, predictGame(A, B) returns teamAWinProb within
\* [0.01, 0.99] and teamBWinProb = 1 - teamAWinProb, derived from runsA = (A's
\* offense prediction + B's defense prediction) / 2 and runsB = (B's offense
\* prediction + A's defense prediction) / 2, with teamAWinProb > 0.5 exactly
\* when runsA > runsB and teamAWinProb = 0.5 when they are equal.
C18WinProbability ==
    GameOverLoaded =>
        LET a == predictTeamScore(call.data, call.args[1])
            b == predictTeamScore(call.data, call.args[2])
            runsA == a.predictedRunsScored + b.predictedRunsAllowed
            runsB == b.predictedRunsScored + a.predictedRunsAllowed
        IN  /\ call.result.teamAWinProb \in 10..990
            /\ call.result.teamBWinProb = 1000 - call.result.teamAWinProb
            /\ (call.result.teamAWinProb > 500) <=> (runsA > runsB)
            /\ (call.result.teamAWinProb = 500) <=> (runsA = runsB)
            /\ call.result.spreadA = MathRound(runsA - runsB, 2)

\* a game decided by more than 13 runs: the probability is held at 0.99
C18Witness ==
    /\ GameOverLoaded
    /\ call.result.teamAWinProb = 990
    /\ call.result.teamBWinProb = 10
    /\ call.result.spreadA > 131

(***************************************************************************)
(* Claims about the picks list                                             *)
(***************************************************************************)
\* game has an edge that is at least as large as every edge of other
BestEdgeAtLeast(game, other) ==
    \A k \in 1..Len(other.edges) :
        \E j \in 1..Len(game.edges) :
            ~FracLess(game.edges[j].adjustedEdge, other.edges[k].adjustedEdge)

\* C19 (as claimed): every game placed in the picks list has at least one
\* BetEdge with adjustedEdge > 0, and the list is ordered by non-increasing
\* best adjustedEdge of the games.
C19PositiveEdgeSorted ==
    step = "picks" =>
        /\ \A i \in 1..Len(picks) :
            \E k \in 1..Len(picks[i].edges) : picks[i].edges[k].adjustedEdge[1] > 0
        /\ \A i \in 1..Len(picks) : \A j \in (i + 1)..Len(picks) :
            BestEdgeAtLeast(picks[i], picks[j])

(***************************************************************************)
(* C20: every Game returned by convertESPNGames and by                     *)
(* mergeWarrenNolanPredictions, a standalone Game appended for an          *)
(* unmatched prediction included, has teamA and teamB equal to canonical   *)
(* slugs: normalizeTeamName(teamA) = teamA and                             *)
(* normalizeTeamName(teamB) = teamB.                                       *)
(***************************************************************************)
isCanonicalSlug(name) == normalizeTeamName(name) = name

AllCanonical(games) ==
    \A i \in 1..Len(games) :
        isCanonicalSlug(games[i].teamA) /\ isCanonicalSlug(games[i].teamB)

C20CanonicalTeams ==
    /\ step \in {"converted", "merged"} => AllCanonical(allGames)
    /\ step = "merged" => AllCanonical(gamesWithPredictions)

MergedAfter(k) == mergeWarrenNolanPredictions(allGames, SubSeq(warrenNolanGames, 1, k))

\* the normalized unordered team pair of a prediction record
NormalizedPair(wn) == {normalizeTeamName(wn.teamA), normalizeTeamName(wn.teamB)}

MatchesNoGame(games, wn) == \A i \in 1..Len(games) : ~teamsMatch(games[i], wn)

UnmatchedPairs ==
    {NormalizedPair(warrenNolanGames[k]) :
        k \in {j \in 1..Len(warrenNolanGames) : MatchesNoGame(allGames, warrenNolanGames[j])}}

\* C22: a prediction record that matches no game of the merged list so far
\* appends exactly one Game with hasPrediction = true built from the record
\* at the end and leaves the games already listed unchanged; the merged list
\* is as long as the schedule list plus the number of distinct normalized
\* unordered team pairs among the records that match no schedule game.
C22StandaloneAppended ==
    step = "merged" =>
        /\ \A k \in 1..Len(warrenNolanGames) :
            MatchesNoGame(MergedAfter(k - 1), warrenNolanGames[k]) =>
                /\ Len(MergedAfter(k)) = Len(MergedAfter(k - 1)) + 1
                /\ SubSeq(MergedAfter(k), 1, Len(MergedAfter(k - 1))) = MergedAfter(k - 1)
                /\ LET new == MergedAfter(k)[Len(MergedAfter(k))]
                   IN  /\ new.hasPrediction
                       /\ new.id = warrenNolanGames[k].id
                       /\ new.teamA = warrenNolanGames[k].teamA
                       /\ new.teamB = warrenNolanGames[k].teamB
                       /\ new.modelProbA = warrenNolanGames[k].modelProbA
                       /\ new.modelProbB = warrenNolanGames[k].modelProbB
        /\ gamesWithPredictions = MergedAfter(Len(warrenNolanGames))
        /\ Len(gamesWithPredictions) = Len(allGames) + Cardinality(UnmatchedPairs)

\* two records of one unmatched pair, spelled with a space, next to a
\* schedule game: one standalone game is appended
C22Witness ==
    /\ step = "merged"
    /\ Len(allGames) > 0
    /\ Len(warrenNolanGames) = 2
    /\ Cardinality(UnmatchedPairs) = 1
    /\ MatchesNoGame(allGames, warrenNolanGames[1])
    /\ MatchesNoGame(allGames, warrenNolanGames[2])
    /\ warrenNolanGames[1].teamA = <<"a", " ", "b">>
    /\ Len(gamesWithPredictions) = Len(allGames) + 1

(***************************************************************************)
(* Claims about the inputs of mergeWarrenNolanPredictions                  *)
(***************************************************************************)
\* the output Game with the four prediction fields put back to the input's
WithoutPrediction(out, in) ==
    [out EXCEPT !.modelProbA = in.modelProbA, !.modelProbB = in.modelProbB,
                !.hasPrediction = in.hasPrediction,
                !.predictionSource = in.predictionSource]

\* C23: mergeWarrenNolanPredictions does not modify its inputs: the input
\* game list, every input Game and every prediction record are, during and
\* after the call, as they were when it started; the returned list and its
\* Games are new objects, and the output Game at the position of an input
\* Game differs from it only in modelProbA, modelProbB, hasPrediction and
\* predictionSource.
C23InputsUnchanged ==
    frame.pc # "none" =>
        /\ \A a \in 1..Len(heapAtCall) : heap[a] = heapAtCall[a]
        /\ frame.pc = "done" =>
            /\ frame.mergedGames > Len(heapAtCall)
            /\ \A i \in 1..Len(heap[frame.mergedGames].items) :
                   heap[frame.mergedGames].items[i] > Len(heapAtCall)
            /\ \A i \in 1..Len(heapAtCall[frame.espnGames].items) :
                   WithoutPrediction(gamesAt(heap, frame.mergedGames)[i],
                                     gamesAt(heapAtCall, frame.espnGames)[i])
                       = gamesAt(heapAtCall, frame.espnGames)[i]
            /\ gamesAt(heap, frame.mergedGames)
                   = mergeWarrenNolanPredictions(gamesAt(heapAtCall, frame.espnGames),
                                                 gamesAt(heapAtCall, frame.warrenNolanGames))

\* the call has returned after rewriting a matched game and appending a
\* standalone one
C23Witness ==
    /\ frame.pc = "done"
    /\ Len(heap[frame.mergedGames].items) > Len(heap[frame.espnGames].items)
    /\ \E i \in 1..Len(heap[frame.espnGames].items) :
        /\ gamesAt(heap, frame.mergedGames)[i].hasPrediction
        /\ ~gamesAt(heap, frame.espnGames)[i].hasPrediction

(***************************************************************************)
(* Claims about loads and predictions running together                     *)
(***************************************************************************)
\* what a reader of the store may find: nothing, or one whole document
WholeStores == {[loaded |-> FALSE]} \cup CoefficientStores

\* C24: under any interleaving of loadCoefficients and setCoefficients
\* calls with prediction calls, the store a prediction observes is either
\* unloaded or one complete document installed by a single load, never a
\* mixture of two documents; and a prediction made over a loaded store
\* neither fails with the not-loaded error nor changes the store, so that
\* after a load that precedes them predictions in any order find the store
\* as the load left it.
C24WholeStoreObserved ==
    /\ [](/\ coefficientsData \in WholeStores
          /\ call.fn # "none" => call.data \in WholeStores)
    /\ [][(coefficientsData.loaded /\ (PredictTeamScore \/ PredictGame))
            => (/\ call'.result.error # "not loaded"
                /\ call'.data = coefficientsData
                /\ coefficientsData' = coefficientsData)]_vars

\* a prediction ran over one document, a later load installed another, and
\* a third load is still suspended
C24Witness ==
    /\ call.fn = "predictGame"
    /\ call.data.loaded
    /\ call.result.error = "none"
    /\ coefficientsData.loaded
    /\ coefficientsData # call.data
    /\ pendingLoads > 0

C26ListedGamesRendered ==
    step = "rendered" =>
        /\ \A i \in 1..Len(picks) : cards.picks[i] # "null"
        /\ \A i \in 1..Len(otherPredictedGames) : cards.otherPredictedGames[i] # "null"

(***************************************************************************)
(* Claims about convertESPNGames                                           *)
(***************************************************************************)
\* the schedule records with status "scheduled", in input order
ScheduledRecords == SelectSeq(espnGames, LAMBDA g : g.status = "scheduled")

\* C25: convertESPNGames returns, in input order, exactly one Game per
\* schedule record with status "scheduled" and none for any other status,
\* with teamA = normalize(away team), teamB = normalize(home team),
\* modelProbA = modelProbB = 0.5, hasPrediction = false; a neutral-site
\* record gives venueType "neutral" with both home flags false, any other
\* record venueType "home_b" with teamBHome true and teamAHome false, so at
\* most one team of a game is flagged home.
C25ScheduledConverted ==
    step = "converted" =>
        /\ Len(allGames) = Len(ScheduledRecords)
        /\ \A i \in 1..Len(allGames) :
            LET game == allGames[i]
                record == ScheduledRecords[i]
            IN  /\ game.id = <<"espn", record.id>>
                /\ game.teamA = normalizeTeamName(record.awayTeam)
                /\ game.teamB = normalizeTeamName(record.homeTeam)
                /\ game.modelProbA = 500 /\ game.modelProbB = 500
                /\ ~game.hasPrediction
                /\ IF record.neutralSite
                   THEN game.venueType = "neutral" /\ ~game.teamAHome /\ ~game.teamBHome
                   ELSE game.venueType = "home_b" /\ ~game.teamAHome /\ game.teamBHome
                /\ ~(game.teamAHome /\ game.teamBHome)

\* a finished game followed by a scheduled neutral-site game: one Game
C25Witness ==
    /\ step = "converted"
    /\ Len(espnGames) = 2
    /\ espnGames[1].status # "scheduled"
    /\ espnGames[2].status = "scheduled" /\ espnGames[2].neutralSite
    /\ Len(allGames) = 1
    /\ allGames[1].venueType = "neutral"
    /\ allGames[1].id = <<"espn", 2>>

(***************************************************************************)
(* Claims about doubleheaders and repeated records                         *)
(***************************************************************************)
\* the positions of the games whose normalized unordered pair is the record's
MatchingGames(games, wn) == {i \in 1..Len(games) : teamsMatch(games[i], wn)}

\* the probabilities (A, B) a record gives a game, by team
ProbsFor(game, wn) ==
    IF normalizeTeamName(game.teamA) = normalizeTeamName(wn.teamA)
    THEN <<wn.modelProbA, wn.modelProbB>>
    ELSE <<wn.modelProbB, wn.modelProbA>>

\* the records that match schedule game i and no schedule game before it
RecordsOf(i) ==
    {k \in 1..Len(warrenNolanGames) :
        MatchingGames(allGames, warrenNolanGames[k]) # {}
            /\ Min(MatchingGames(allGames, warrenNolanGames[k])) = i}

\* C28: a prediction record is applied to at most one game, the first game
\* in list order whose normalized unordered team pair matches; of two
\* schedule games with the same pair only the first ever receives a
\* prediction, the other keeps hasPrediction = false and 0.5/0.5; when
\* several records match one game, the probabilities of the last record in
\* input order are kept.
C28FirstGameLastRecord ==
    step = "merged" =>
        /\ \A k \in 1..Len(warrenNolanGames) :
            LET before == MergedAfter(k - 1)
                after == MergedAfter(k)
                hits == MatchingGames(before, warrenNolanGames[k])
            IN  hits # {} =>
                    /\ Len(after) = Len(before)
                    /\ \A i \in 1..Len(before) : i # Min(hits) => after[i] = before[i]
                    /\ after[Min(hits)].hasPrediction
                    /\ <<after[Min(hits)].modelProbA, after[Min(hits)].modelProbB>>
                           = ProbsFor(before[Min(hits)], warrenNolanGames[k])
        /\ \A i \in 1..Len(allGames) : \A j \in (i + 1)..Len(allGames) :
            teamsMatch(allGames[i], allGames[j]) =>
                gamesWithPredictions[j] = allGames[j]
        /\ \A i \in 1..Len(allGames) :
            RecordsOf(i) # {} =>
                <<gamesWithPredictions[i].modelProbA, gamesWithPredictions[i].modelProbB>>
                    = ProbsFor(allGames[i], warrenNolanGames[Max(RecordsOf(i))])

\* a doubleheader and two records for it with different probabilities: the
\* first game carries the second record's, the second game none
C28Witness ==
    /\ step = "merged"
    /\ Len(allGames) = 2
    /\ teamsMatch(allGames[1], allGames[2])
    /\ RecordsOf(1) = {1, 2}
    /\ warrenNolanGames[1].modelProbB = 600
    /\ warrenNolanGames[2].modelProbB = 700
    /\ warrenNolanGames[1].teamA # warrenNolanGames[2].teamA
    /\ gamesWithPredictions[1].hasPrediction
    /\ ~gamesWithPredictions[2].hasPrediction
    /\ gamesWithPredictions[2].modelProbA = 500

(***************************************************************************)
(* Claims about parseStatus                                                *)
(***************************************************************************)
\* the upstream name of an event, the default put in for a missing one
UpstreamName(event) ==
    toLowerCase(IF event.statusName = <<>> THEN <<"s", "c", "h", "e", "d", "u", "l", "e", "d">> ELSE event.statusName)

\* the status the claim gives a name, by the keyword it contains
ClaimedStatus(lower) ==
    IF stringIncludes(lower, <<"f", "i", "n", "a", "l">>) THEN "final"
    ELSE IF stringIncludes(lower, <<"p", "o", "s", "t", "p", "o", "n", "e">>) THEN "postponed"
    ELSE IF stringIncludes(lower, <<"c", "a", "n", "c", "e", "l">>) THEN "canceled"
    ELSE IF stringIncludes(lower, <<"p", "r", "o", "g", "r", "e", "s", "s">>) THEN "in_progress"
    ELSE "scheduled"

\* C29: parseStatus classifies an upstream status name by its meaning: a
\* name containing "final" gives final, "postpone" postponed, "cancel"
\* canceled, "progress" in_progress, and only names containing "scheduled"
\* or "pre" or none of the keywords give scheduled; hence convertESPNGames
\* keeps no game whose upstream status is final, postponed, canceled or in
\* progress.
C29StatusByMeaning ==
    /\ step \in {"fetched", "converted"} =>
        \A i \in 1..Len(events) :
            espnGames[i].status = ClaimedStatus(UpstreamName(events[i]))
    /\ step = "converted" =>
        \A i \in 1..Len(events) :
            ClaimedStatus(UpstreamName(events[i])) # "scheduled" =>
                \A j \in 1..Len(allGames) : allGames[j].id # <<"espn", events[i].id>>

(***************************************************************************)
(* Claims about the two classifiers                                        *)
(***************************************************************************)
\* C30: on every edge the legacy classification and the pick label agree
\* in direction: STRONG BET implies D1 PICK, GOOD BET implies SMART BET or
\* D1 PICK, WEAK BET implies a label other than PASS, and a label of PASS
\* implies a classification of PASS, at the rounding and threshold
\* boundaries too.
C30ClassifiersAgree ==
    mlStep = "label" =>
        LET classification == classifyBet(edgeCalc.adjustedEdge)
        IN  /\ classification = "STRONG BET" => pickLabel = "D1 PICK"
            /\ classification = "GOOD BET" => pickLabel \in {"SMART BET", "D1 PICK"}
            /\ classification = "WEAK BET" => pickLabel # "PASS"
            /\ pickLabel = "PASS" => classification = "PASS"

\* an edge of exactly 0.03, the lowest WEAK BET: score 6.5, LEAN
C30Witness ==
    /\ mlStep = "label"
    /\ edgeCalc.adjustedEdge = <<3, 100>>
    /\ classifyBet(edgeCalc.adjustedEdge) = "WEAK BET"
    /\ aiScore = 65
    /\ pickLabel = "LEAN"

====
